---------------------------- MODULE Spec2Model ----------------------------
(***************************************************************************)
(* State-machine model of parts of the Edge TPU host driver:               *)
(*                                                                         *)
(*  - the in-kernel fence awaiter (gcip-ikf.c): gcip_ikf_wait_timeout,     *)
(*    the waiter kthread gcip_ikf_thread_func and gcip_ikf_awaiter_exit;   *)
(*  - the wakelock ioctls of a client (edgetpu-fs.c):                      *)
(*    edgetpu_ioctl_acquire_wakelock and edgetpu_ioctl_release_wakelock,   *)
(*    and the removal of the client (edgetpu_client_remove);               *)
(*  - the tracker of the mappings of a group (edgetpu-mapping.c);          *)
(*  - the group ioctls of a client (edgetpu-fs.c) and the VII commands     *)
(*    and responses of its group.                                          *)
(*                                                                         *)
(* Every C function that blocks or takes a lock is cut into steps at the   *)
(* points where another thread can run; each step is one action.           *)
(***************************************************************************)
EXTENDS Integers, Sequences, FiniteSets, TLC

(***************************************************************************)
(* Bounds of the model.                                                    *)
(***************************************************************************)
\* number of gcip_ikf_wait_timeout calls (one waiter record each)
MaxWaiters == 2
\* number of distinct dma fences
NumFences == 1
\* the finite timeout (in jiffies) a wait may pass
FiniteTimeout == 1

(***************************************************************************)
(* Program constants (errno values and scheduler constants used by the     *)
(* code).                                                                  *)
(***************************************************************************)
EPERM == 1
ENOMEM == 12
EINVAL == 22
EAGAIN == 11
ETIMEDOUT == 110
ERESTARTSYS == 512
\* LONG_MAX, the "no timeout" value (the largest integer of the checker)
MAX_SCHEDULE_TIMEOUT == 2147483647

NULL == 0
Waiters == 1..MaxWaiters
Fences == 1..NumFences
Timeouts == {FiniteTimeout, MAX_SCHEDULE_TIMEOUT}

VARIABLES
    \* ---- struct gcip_ikf_awaiter ----
    awaiter,      \* [threads: Seq(Waiters), stop_threads, signaled_cb]
    \* ---- struct gcip_ikf_thread, one per wait call ----
    thread,       \* [w -> [fence, timeout_jiffies, data, signaled, freed]]
    \* ---- the kthread of each waiter ----
    task,         \* [w -> [pc, should_stop, wait_status, release_thread]]
    \* ---- the gcip_ikf_wait_timeout call that uses record w ----
    call,         \* [w -> [pc, fence, data, ret, after_stop]]
    \* ---- struct dma_fence ----
    fence,        \* [f -> [signaled, refs, sw_signaling]]
    \* ---- the gcip_ikf_awaiter_exit call ----
    exit,         \* [pc, cur]
    \* ---- history: the invocations of awaiter->signaled_cb per waiter ----
    cb_calls,     \* [w -> Seq([fence, wait_status, data, by])]
    \* ---- struct edgetpu_client: group (non-NULL or not), group_lock, count ----
    client,       \* [group: BOOLEAN, group_lock: 0 or the holder, count, freed]
    \* ---- struct edgetpu_wakelock of the client ----
    wakelock,     \* [req_count, event_count, lock: 0 or the holding thread]
    \* ---- the mailbox of the client's group: attached or not ----
    mailbox_attached,
    \* ---- the device's power reference count (edgetpu_pm_get/put) ----
    pm_count,
    \* ---- the wakelock ioctl each user thread is executing ----
    ioctl,        \* [t -> [op, pc, count, ret, log]]
    \* ---- history: calls and count transitions so far ----
    hist,
    \* ---- the edgetpu_client_remove call of the client ----
    remove,       \* [pc, wakelock_count, log]
    \* ---- struct edgetpu_mapping_root: the tree in order, count, lock ----
    mappings,     \* [rb: Seq(Maps) by device_address, count, lock: BOOLEAN]
    \* ---- struct edgetpu_mapping, one per mapping made by a caller ----
    map,          \* [m -> [state, device_address, size, release, released]]
    \* ---- the last operation on the tracker and what it returned ----
    mapop,        \* [op, map, iova, ret]
    \* ---- the tracker operation each thread is executing, step by step ----
    trk,          \* [t -> [pc, m, iova, cur, total, cb]]
    \* ---- struct edgetpu_device_group: the group of the client ----
    group,        \* [status, ref_count, freed, fatal_errors, mappings, ...]
    \* ---- struct edgetpu_dev ----
    etdev,        \* [use_ikv, vii_format, firmware_crash_count]
    \* ---- the group ioctl each user thread is executing ----
    gioctl,       \* [t -> [op, pc, ret, gets, puts]]
    \* ---- the group ioctl that returned last, and what it returned ----
    gret,         \* [op, ret, gets, puts, nogroup]
    \* ---- the number of group ioctls called so far ----
    gcalls,
    \* ---- the VII commands submitted to the group ----
    command,      \* [c -> [state, seq, responses]]
    \* ---- the in-kernel VII mailbox: credits left, responses to fetch ----
    ikv,          \* [credits, backlog, resp_queue: Seq([cmd, seq, code, retval])]
    \* ---- the staging buffer of the litebuf command ioctl called last ----
    litebuf,      \* [large, kzalloc, iremap_alloc, iremap_free, kfree, callback]
    \* ---- the last timestamp ioctl or mmap: what it returned, whether it
    \* ---- read the register or made a mapping, whether it got to the wakelock;
    \* ---- nth is the parity of the number of these calls
    access,       \* [nth, op, region, ret, reads, maps, tested]
    \* ---- etdev->clients: its lock, whether the client is on the list, and
    \* ---- the clients_show call that walks it
    clients,      \* [lock: BOOLEAN, listed: BOOLEAN, pc, count, printed]
    \* ---- struct edgetpu_vma_private, one per successful mmap, and the
    \* ---- event_count[] array of the wakelock, per type of region
    vma           \* [pvt: [p -> [state, type, count]], event_count: [type -> n]]

ikf_vars == <<awaiter, thread, task, call, fence, exit, cb_calls>>
wl_vars == <<client, wakelock, mailbox_attached, pm_count, ioctl, hist>>
rm_vars == <<remove>>
map_vars == <<mappings, map, mapop, trk>>
vii_vars == <<etdev, command, ikv>>
grp_vars == <<group, gioctl, gret, gcalls, vii_vars, litebuf>>
vars == <<awaiter, thread, task, call, fence, exit, cb_calls,
          client, wakelock, mailbox_attached, pm_count, ioctl, hist, remove,
          mappings, map, mapop, trk, group, etdev, gioctl, gret, gcalls, command, ikv,
          litebuf, access, clients, vma>>

\* what the steps of one part of the driver leave alone
ikf_others == <<wl_vars, rm_vars, map_vars, grp_vars, access, clients, vma>>
acc_others == <<ikf_vars, rm_vars, map_vars, grp_vars, clients, vma>>
wl_others == <<acc_others, access>>
rm_others == <<ikf_vars, map_vars, grp_vars, access, clients, vma>>
show_others == <<ikf_vars, rm_vars, map_vars, grp_vars, access, vma,
                 wakelock, mailbox_attached, pm_count, ioctl, hist>>
vma_others == <<ikf_vars, rm_vars, map_vars, grp_vars, access, clients,
                mailbox_attached, pm_count, ioctl>>
map_others == <<ikf_vars, wl_vars, rm_vars, grp_vars, access, trk, clients, vma>>
trk_others == <<ikf_vars, wl_vars, rm_vars, grp_vars, access, mapop, clients, vma>>
lite_others == <<ikf_vars, wakelock, mailbox_attached, pm_count, ioctl, hist,
                 rm_vars, map_vars, access, clients, vma>>
grp_others == <<lite_others, litebuf>>


(***************************************************************************)
(* Kernel primitives used by gcip-ikf.c.                                   *)
(***************************************************************************)
\* dma_fence_get(): one more reference on fence f
dma_fence_get(fs, f) == [fs EXCEPT ![f].refs = @ + 1]

\* dma_fence_put(): one reference less on fence f
dma_fence_put(fs, f) == [fs EXCEPT ![f].refs = @ - 1]

\* dma_fence_enable_sw_signaling()
dma_fence_enable_sw_signaling(fs, f) == [fs EXCEPT ![f].sw_signaling = TRUE]

\* The values dma_fence_wait_timeout(fence, intr = true, timeout) can return
\* to a thread: the remaining jiffies (at least 1; the timeout itself for
\* MAX_SCHEDULE_TIMEOUT) once the fence is signaled, -ERESTARTSYS when the
\* thread has a signal pending (kthread_stop), 0 when a finite timeout
\* elapsed before the fence was signaled (the fence may be signaled by the
\* time the thread looks at the value).
dma_fence_wait_timeout(is_signaled, pending, timeout) ==
    (IF is_signaled
        THEN (IF timeout = MAX_SCHEDULE_TIMEOUT
                 THEN {MAX_SCHEDULE_TIMEOUT} ELSE 1..timeout)
        ELSE {})
    \cup (IF pending THEN {-ERESTARTSYS} ELSE {})
    \cup (IF timeout # MAX_SCHEDULE_TIMEOUT THEN {0} ELSE {})

\* awaiter->signaled_cb(fence, wait_status, data), recorded per waiter
signaled_cb(w, status, who) ==
    [cb_calls EXCEPT ![w] = Append(@,
        [fence |-> thread[w].fence, wait_status |-> status,
         data |-> thread[w].data, by |-> who])]

\* list_del(&thread->node)
list_del(list, w) == SelectSeq(list, LAMBDA x : x # w)

\* The fences a new wait may name: NULL, a fence already waited on, or the
\* next fresh one (fences are interchangeable, so they are used in order).
UsedFences == {call[w].fence : w \in Waiters} \ {NULL}
CallFences == {NULL} \cup {f \in Fences : f <= Cardinality(UsedFences) + 1}

\* the user-data pointer passed by the w-th wait call (a distinct cookie)
Cookie(w) == 100 + w

NoThread == [fence |-> NULL, timeout_jiffies |-> 0, data |-> NULL,
             signaled |-> FALSE, freed |-> FALSE]
NoTask == [pc |-> "none", should_stop |-> FALSE, wait_status |-> 0,
           release_thread |-> FALSE]
NoCall == [pc |-> "idle", fence |-> NULL, data |-> NULL, ret |-> 0,
           after_stop |-> FALSE]

(***************************************************************************)
(* gcip_ikf_awaiter_init(): empty list, flag clear, the callback given     *)
(* (TRUE stands for a non-NULL signaled_cb).                               *)
(***************************************************************************)
gcip_ikf_awaiter_init ==
    /\ awaiter \in {[threads |-> <<>>, stop_threads |-> FALSE, signaled_cb |-> c] :
                        c \in BOOLEAN}
    /\ thread = [w \in Waiters |-> NoThread]
    /\ task = [w \in Waiters |-> NoTask]
    /\ call = [w \in Waiters |-> NoCall]
    /\ fence = [f \in Fences |-> [signaled |-> FALSE, refs |-> 1, sw_signaling |-> FALSE]]
    /\ exit = [pc |-> "idle", cur |-> NULL]
    /\ cb_calls = [w \in Waiters |-> <<>>]

(***************************************************************************)
(* gcip_ikf_wait_timeout(), first part (lines 161-180): argument check,    *)
(* allocation of the record, dma_fence_get, kthread_create.  `res' is the  *)
(* outcome of the two allocations.  The waits are issued one after the     *)
(* other (record w is used by the w-th call, made once the call before it  *)
(* has returned); each races with the waiter threads and with exit.        *)
(***************************************************************************)
gcip_ikf_wait_timeout_create(w, f, timeout, res) ==
    /\ call[w].pc = "idle"
    /\ w > 1 => call[w - 1].pc = "ret"
    /\ IF f = NULL
       THEN /\ res = "ok"
            /\ call' = [call EXCEPT ![w] = [pc |-> "ret", fence |-> f, data |-> Cookie(w),
                            ret |-> -EINVAL, after_stop |-> awaiter.stop_threads]]
            /\ UNCHANGED <<fence, thread, task>>
       ELSE CASE res = "kzalloc_fails" ->
                 /\ fence' = dma_fence_enable_sw_signaling(fence, f)
                 /\ call' = [call EXCEPT ![w] = [pc |-> "ret", fence |-> f,
                                 data |-> Cookie(w), ret |-> -ENOMEM,
                                 after_stop |-> awaiter.stop_threads]]
                 /\ UNCHANGED <<thread, task>>
              [] res = "kthread_create_fails" ->
                 \* err_put_fence: dma_fence_put(fence); kfree(thread)
                 /\ fence' = dma_fence_put(
                        dma_fence_get(dma_fence_enable_sw_signaling(fence, f), f), f)
                 /\ thread' = [thread EXCEPT ![w] = [NoThread EXCEPT !.freed = TRUE]]
                 /\ call' = [call EXCEPT ![w] = [pc |-> "ret", fence |-> f,
                                 data |-> Cookie(w), ret |-> -ENOMEM,
                                 after_stop |-> awaiter.stop_threads]]
                 /\ UNCHANGED task
              [] res = "ok" ->
                 /\ fence' = dma_fence_get(dma_fence_enable_sw_signaling(fence, f), f)
                 /\ thread' = [thread EXCEPT ![w] = [fence |-> f,
                                   timeout_jiffies |-> timeout, data |-> Cookie(w),
                                   signaled |-> FALSE, freed |-> FALSE]]
                 /\ task' = [task EXCEPT ![w].pc = "created"]
                 /\ call' = [call EXCEPT ![w] = [pc |-> "created", fence |-> f,
                                 data |-> Cookie(w), ret |-> 0,
                                 after_stop |-> awaiter.stop_threads]]
    /\ UNCHANGED <<awaiter, exit, cb_calls>>
    /\ UNCHANGED ikf_others

(***************************************************************************)
(* gcip_ikf_wait_timeout(), second part (lines 182-204), under             *)
(* threads_lock: refuse when the awaiter is stopping, else link the record *)
(* and wake the thread.  On refusal kthread_stop() ends the thread, which  *)
(* was never woken and so never enters gcip_ikf_thread_func.               *)
(***************************************************************************)
\* faulty variant: waits are accepted whatever the stop flag says
awaiter_is_stopping_ignored == FALSE

\* line 185: if (awaiter->stop_threads)
awaiter_is_stopping == awaiter.stop_threads

\* faulty variant: the error path forgets the dma_fence_put
refused_wait_keeps_fence(f) == fence

\* lines 200-201 (err_put_fence): dma_fence_put(fence)
refused_wait_puts_fence(f) == dma_fence_put(fence, f)

gcip_ikf_wait_timeout_register(w) ==
    /\ call[w].pc = "created"
    /\ IF awaiter_is_stopping
       THEN /\ call' = [call EXCEPT ![w].pc = "ret", ![w].ret = -EPERM]
            /\ task' = [task EXCEPT ![w].pc = "exited", ![w].should_stop = TRUE]
            /\ fence' = refused_wait_puts_fence(call[w].fence)
            /\ thread' = [thread EXCEPT ![w].freed = TRUE]
            /\ UNCHANGED awaiter
       ELSE /\ awaiter' = [awaiter EXCEPT !.threads = Append(@, w)]
            /\ task' = [task EXCEPT ![w].pc = "woken"]
            /\ call' = [call EXCEPT ![w].pc = "ret", ![w].ret = 0]
            /\ UNCHANGED <<fence, thread>>
    /\ UNCHANGED <<exit, cb_calls>>
    /\ UNCHANGED ikf_others

(***************************************************************************)
(* The kthread of waiter w.                                                *)
(***************************************************************************)
\* kthread(): a woken thread calls its thread function unless it was
\* stopped before it ever ran.
kthread_start(w) ==
    /\ task[w].pc = "woken"
    /\ task' = [task EXCEPT ![w].pc = IF task[w].should_stop THEN "exited" ELSE "waiting"]
    /\ UNCHANGED <<awaiter, thread, call, fence, exit, cb_calls>>
    /\ UNCHANGED ikf_others

\* lines 41-47: dma_fence_wait_timeout() returns and kthread_should_stop() is
\* read.  The flag only ever goes from clear to set and the value returned
\* by the wait is used only when the flag is read clear, so the two lines are
\* one step, taken when the flag is read.
gcip_ikf_thread_func_wait(w) ==
    /\ task[w].pc = "waiting"
    /\ \E r \in dma_fence_wait_timeout(fence[thread[w].fence].signaled,
                                       task[w].should_stop,
                                       thread[w].timeout_jiffies) :
         task' = [task EXCEPT
                    ![w].pc = IF task[w].should_stop THEN "out" ELSE "signaled",
                    ![w].wait_status = IF task[w].should_stop THEN 0 ELSE r]
    /\ UNCHANGED <<awaiter, thread, call, fence, exit, cb_calls>>
    /\ UNCHANGED ikf_others

\* faulty variant: the value of dma_fence_wait_timeout() is handed over as is
callback_status_unconverted(wait_status) == wait_status

\* lines 62-72: the wait_status handed to the callback
callback_status(wait_status) ==
    LET s1 == IF wait_status = 0 THEN -ETIMEDOUT ELSE wait_status
    IN  IF s1 = MAX_SCHEDULE_TIMEOUT THEN 0 ELSE s1

\* faulty variant: the thread forgets to record that it handled the fence
thread_signaled_not_set(w) == thread

\* line 60: thread->signaled = true
thread_set_signaled(w) == [thread EXCEPT ![w].signaled = TRUE]

\* lines 60-81: thread->signaled = true, then the callback
gcip_ikf_thread_func_signaled(w) ==
    /\ task[w].pc = "signaled"
    /\ thread' = thread_set_signaled(w)
    /\ task' = [task EXCEPT ![w].pc = "out", ![w].wait_status = 0]
    /\ cb_calls' = IF awaiter.signaled_cb
                   THEN signaled_cb(w, callback_status(task[w].wait_status), "thread")
                   ELSE cb_calls
    /\ UNCHANGED <<awaiter, call, fence, exit>>
    /\ UNCHANGED ikf_others

\* faulty variant: the thread unlinks itself whatever the stop flag says
thread_unlinks_always(a) == TRUE

\* line 91: if (likely(!awaiter->stop_threads))
thread_may_unlink(a) == ~a.stop_threads

\* lines 82-96 (out:), under threads_lock: unlink unless the awaiter stops
gcip_ikf_thread_func_out(w) ==
    /\ task[w].pc = "out"
    /\ IF thread_may_unlink(awaiter)
       THEN /\ task' = [task EXCEPT ![w].pc = "release", ![w].release_thread = TRUE]
            /\ awaiter' = [awaiter EXCEPT !.threads = list_del(@, w)]
       ELSE /\ task' = [task EXCEPT ![w].pc = "release"]
            /\ UNCHANGED awaiter
    /\ UNCHANGED <<thread, call, fence, exit, cb_calls>>
    /\ UNCHANGED ikf_others

\* faulty variant: the thread releases its record whether it unlinked it or not
thread_releases_always(t) == TRUE

\* line 105: if (release_thread)
thread_releases(t) == t.release_thread

\* lines 105-110: release the record if it was unlinked; return 0
gcip_ikf_thread_func_return(w) ==
    /\ task[w].pc = "release"
    /\ task' = [task EXCEPT ![w].pc = "exited"]
    /\ IF thread_releases(task[w])
       THEN /\ fence' = dma_fence_put(fence, thread[w].fence)
            /\ thread' = [thread EXCEPT ![w].freed = TRUE]
       ELSE UNCHANGED <<fence, thread>>
    /\ UNCHANGED <<awaiter, call, exit, cb_calls>>
    /\ UNCHANGED ikf_others

(***************************************************************************)
(* gcip_ikf_awaiter_exit().                                                *)
(***************************************************************************)
\* lines 127-129: awaiter->stop_threads = true, under threads_lock
gcip_ikf_awaiter_exit_stop_threads ==
    /\ exit.pc = "idle"
    /\ awaiter' = [awaiter EXCEPT !.stop_threads = TRUE]
    /\ exit' = [exit EXCEPT !.pc = "loop"]
    /\ UNCHANGED <<thread, task, call, fence, cb_calls>>
    /\ UNCHANGED ikf_others

\* line 133: kthread_stop(cur->task) is called on the first listed waiter.
\* It sets the thread's should-stop flag, wakes it and waits for its exit.
\* When the thread function has already returned, nothing holds a reference
\* on the task any more (the thread was reaped on exit): the call reads freed
\* memory, and either comes back or never does.
gcip_ikf_awaiter_exit_kthread_stop ==
    /\ exit.pc = "loop"
    /\ awaiter.threads # <<>>
    /\ LET cur == Head(awaiter.threads) IN
         IF task[cur].pc = "exited"
         THEN /\ \E outcome \in {"stopping", "crashed"} :
                   exit' = [pc |-> outcome, cur |-> cur]
              /\ UNCHANGED task
         ELSE /\ task' = [task EXCEPT ![cur].should_stop = TRUE]
              /\ exit' = [pc |-> "stopping", cur |-> cur]
    /\ UNCHANGED <<awaiter, thread, call, fence, cb_calls>>
    /\ UNCHANGED ikf_others

\* faulty variant: kthread_stop() does not wait for the thread
kthread_stop_returns_at_once(cur) == TRUE

\* line 133: kthread_stop() returns once the thread has exited
kthread_stop_returns(cur) == task[cur].pc = "exited"

\* faulty variant: the sweep cancels the waiters that did signal
sweep_cancels_signaled(cur) == thread[cur].signaled /\ awaiter.signaled_cb

\* line 141: if (!cur->signaled && awaiter->signaled_cb)
sweep_cancels(cur) == ~thread[cur].signaled /\ awaiter.signaled_cb

\* lines 133-150: kthread_stop() returns; then the canceled callback for a
\* waiter that did not signal, and the release of the record.
gcip_ikf_awaiter_exit_reap ==
    /\ exit.pc = "stopping"
    /\ kthread_stop_returns(exit.cur)
    /\ cb_calls' = IF sweep_cancels(exit.cur)
                   THEN signaled_cb(exit.cur, -ERESTARTSYS, "exit")
                   ELSE cb_calls
    /\ awaiter' = [awaiter EXCEPT !.threads = list_del(@, exit.cur)]
    /\ fence' = dma_fence_put(fence, thread[exit.cur].fence)
    /\ thread' = [thread EXCEPT ![exit.cur].freed = TRUE]
    /\ exit' = [pc |-> "loop", cur |-> NULL]
    /\ UNCHANGED <<task, call>>
    /\ UNCHANGED ikf_others

\* line 152: the list is exhausted, exit returns
gcip_ikf_awaiter_exit_return ==
    /\ exit.pc = "loop"
    /\ awaiter.threads = <<>>
    /\ exit' = [exit EXCEPT !.pc = "done"]
    /\ UNCHANGED <<awaiter, thread, task, call, fence, cb_calls>>
    /\ UNCHANGED ikf_others

(***************************************************************************)
(* Environment: some driver signals fence f (dma_fence_signal).            *)
(***************************************************************************)
dma_fence_signal(f) ==
    /\ ~fence[f].signaled
    /\ fence' = [fence EXCEPT ![f].signaled = TRUE]
    /\ UNCHANGED <<awaiter, thread, task, call, exit, cb_calls>>
    /\ UNCHANGED ikf_others

IkfNext ==
    \/ \E w \in Waiters, f \in CallFences, t \in Timeouts,
          res \in {"ok", "kzalloc_fails", "kthread_create_fails"} :
            gcip_ikf_wait_timeout_create(w, f, t, res)
    \/ \E w \in Waiters : gcip_ikf_wait_timeout_register(w)
    \/ \E w \in Waiters : kthread_start(w)
    \/ \E w \in Waiters : gcip_ikf_thread_func_wait(w)
    \/ \E w \in Waiters : gcip_ikf_thread_func_signaled(w)
    \/ \E w \in Waiters : gcip_ikf_thread_func_out(w)
    \/ \E w \in Waiters : gcip_ikf_thread_func_return(w)
    \/ gcip_ikf_awaiter_exit_stop_threads
    \/ gcip_ikf_awaiter_exit_kthread_stop
    \/ gcip_ikf_awaiter_exit_reap
    \/ gcip_ikf_awaiter_exit_return
    \/ \E f \in Fences : dma_fence_signal(f)

(***************************************************************************)
(* The wakelock of a client (edgetpu-fs.c).  The functions of              *)
(* edgetpu-wakelock.c, edgetpu-pm.c and edgetpu-device-group.c that the    *)
(* ioctls call are modelled from their contract.                           *)
(***************************************************************************)
\* number of user threads issuing wakelock ioctls on the client
NumThreads == 2
\* number of wakelock ioctl calls and mmap/munmap calls in one behaviour
MaxCalls == 4

EIO == 5
EFAULT == 14
EOVERFLOW == 75
INT_MAX == 2147483647

Threads == 1..NumThreads

\* edgetpu_wakelock_acquire(): returns the count before the increment, or a
\* negative error when the count cannot grow any more
edgetpu_wakelock_acquire(wl) ==
    IF wl.req_count >= INT_MAX
    THEN [ret |-> -EOVERFLOW, wl |-> wl]
    ELSE [ret |-> wl.req_count, wl |-> [wl EXCEPT !.req_count = @ + 1]]

\* edgetpu_wakelock_release(): fails with -EINVAL when the count is zero and
\* with -EAGAIN when the last request is released while mmap'ed CSR or queue
\* buffers are held; else returns the count after the decrement
edgetpu_wakelock_release(wl) ==
    IF wl.req_count = 0
    THEN [ret |-> -EINVAL, wl |-> wl]
    ELSE IF wl.req_count = 1 /\ wl.event_count > 0
    THEN [ret |-> -EAGAIN, wl |-> wl]
    ELSE [ret |-> wl.req_count - 1, wl |-> [wl EXCEPT !.req_count = @ - 1]]

\* the transitions of the count between zero and non-zero, for the history
CountUp(old, new) == IF old.req_count = 0 /\ new.req_count > 0 THEN 1 ELSE 0
CountDown(old, new) == IF old.req_count > 0 /\ new.req_count = 0 THEN 1 ELSE 0

NoAccess == [nth |-> 0, op |-> "none", region |-> FALSE, ret |-> 0, reads |-> 0,
             maps |-> 0, tested |-> FALSE]
\* number of struct edgetpu_vma_private (and of VMAs sharing one) at a time
MaxVmas == 2
Pvts == 1..MaxVmas

\* enum edgetpu_wakelock_event, without its END
WakelockEvents == {"FULL_CSR", "MBOX_CSR", "CMD_QUEUE", "RESP_QUEUE"}

\* no VMA of the client
NoPvt == [state |-> "none", type |-> "VMA_INVALID", count |-> 0]
NoVma == [pvt |-> [p \in Pvts |-> NoPvt],
          event_count |-> [e \in WakelockEvents |-> 0]]

\* the client is on the list of its device; nobody reads the list
NoClients == [lock |-> FALSE, listed |-> TRUE, pc |-> "idle", count |-> 0,
              printed |-> 0]
NoIoctl == [op |-> "none", pc |-> "idle", count |-> 0, ret |-> 0, log |-> <<>>]
NoRemove == [pc |-> "idle", wakelock_count |-> 0, log |-> <<>>, csr |-> "none"]
NoHist == [calls |-> 0, pm_get |-> 0, pm_put |-> 0, attach |-> 0,
           attach_failed |-> 0, detach |-> 0, up |-> 0, down |-> 0]

\* a thread may enter an ioctl when it is in none
CanCall(t) == /\ ioctl[t].pc \in {"idle", "ret"}
              /\ hist.calls < MaxCalls
              /\ remove.pc = "idle"

\* edgetpu_client_add(): a new client, not holding the wakelock; the client
\* is, or is not, the member of a group whose mailbox is detached
edgetpu_client_add ==
    /\ client \in {[group |-> g, group_lock |-> 0, count |-> 1, freed |-> FALSE,
                 dev_inaccessible |-> FALSE] :
                        g \in BOOLEAN}
    /\ wakelock = [req_count |-> 0, event_count |-> 0, lock |-> 0]
    /\ mailbox_attached = FALSE
    /\ pm_count = 0
    /\ ioctl = [t \in Threads |-> NoIoctl]
    /\ hist = NoHist
    /\ remove = NoRemove
    /\ access = NoAccess
    /\ clients = NoClients
    /\ vma = NoVma

(***************************************************************************)
(* edgetpu_ioctl_acquire_wakelock().                                       *)
(***************************************************************************)
\* edgetpu_pm_get(): one more power reference on the device
edgetpu_pm_get == pm_count + 1

\* edgetpu_pm_put(): one power reference less
edgetpu_pm_put == pm_count - 1

\* faulty variant: the ioctl goes for the locks without powering the device
edgetpu_ioctl_acquire_wakelock_no_pm_get(t, suspended, pm_ok) ==
    /\ CanCall(t)
    /\ ioctl' = [ioctl EXCEPT ![t] = [op |-> "acquire", pc |-> "acq_lock",
                                       count |-> 0, ret |-> 0, log |-> <<>>]]
    /\ hist' = [hist EXCEPT !.calls = @ + 1]
    /\ UNCHANGED <<client, wakelock, mailbox_attached, pm_count>>
    /\ UNCHANGED wl_others

\* lines 494-506: the thermal check, then edgetpu_pm_get()
edgetpu_ioctl_acquire_wakelock_pm_get(t, suspended, pm_ok) ==
    /\ CanCall(t)
    /\ IF suspended
       THEN /\ ioctl' = [ioctl EXCEPT ![t] = [op |-> "acquire", pc |-> "ret",
                                              count |-> 0, ret |-> -EAGAIN, log |-> <<>>]]
            /\ hist' = [hist EXCEPT !.calls = @ + 1]
            /\ UNCHANGED pm_count
       ELSE IF ~pm_ok
       THEN /\ ioctl' = [ioctl EXCEPT ![t] = [op |-> "acquire", pc |-> "ret",
                                              count |-> 0, ret |-> -EIO, log |-> <<>>]]
            /\ hist' = [hist EXCEPT !.calls = @ + 1]
            /\ UNCHANGED pm_count
       ELSE /\ pm_count' = edgetpu_pm_get
            /\ ioctl' = [ioctl EXCEPT ![t] = [op |-> "acquire", pc |-> "acq_lock",
                                              count |-> 0, ret |-> 0,
                                              log |-> <<"pm_get">>]]
            /\ hist' = [hist EXCEPT !.calls = @ + 1, !.pm_get = @ + 1]
    /\ UNCHANGED <<client, wakelock, mailbox_attached>>
    /\ UNCHANGED wl_others

\* line 508: LOCK(client)
edgetpu_ioctl_acquire_wakelock_lock(t) ==
    /\ ioctl[t].pc = "acq_lock"
    /\ client.group_lock = 0
    /\ client' = [client EXCEPT !.group_lock = t]
    /\ ioctl' = [ioctl EXCEPT ![t].pc = "acq_wakelock_lock"]
    /\ UNCHANGED <<wakelock, mailbox_attached, pm_count, hist>>
    /\ UNCHANGED wl_others

\* line 517: edgetpu_wakelock_lock(&client->wakelock)
edgetpu_ioctl_acquire_wakelock_wakelock_lock(t) ==
    /\ ioctl[t].pc = "acq_wakelock_lock"
    /\ wakelock.lock = 0
    /\ wakelock' = [wakelock EXCEPT !.lock = t]
    /\ ioctl' = [ioctl EXCEPT ![t].pc = "acq_locked"]
    /\ UNCHANGED <<client, mailbox_attached, pm_count, hist>>
    /\ UNCHANGED wl_others

\* faulty variant: the count taken stays when the attach fails
attach_failed_keeps_count(wl) == wl

\* line 528: edgetpu_wakelock_release(&client->wakelock) after a failed attach
attach_failed_gives_back(wl) == edgetpu_wakelock_release(wl).wl

\* lines 518-535: the count is taken; on the transition from zero the mailbox
\* of the client's group is attached, and the count is given back when that
\* fails.  Then (lines 533-535) both locks are released.
edgetpu_ioctl_acquire_wakelock_locked(t, attach_ok) ==
    /\ ioctl[t].pc = "acq_locked"
    /\ LET acq == edgetpu_wakelock_acquire(wakelock)
           attaches == acq.ret = 0 /\ client.group
           ret == IF acq.ret < 0 THEN acq.ret
                  ELSE IF attaches /\ ~attach_ok THEN -EIO ELSE 0
           rolled == IF acq.ret = 0 /\ ret # 0
                     THEN attach_failed_gives_back(acq.wl) ELSE acq.wl
       IN  /\ attaches \/ attach_ok
           /\ wakelock' = [rolled EXCEPT !.lock = 0]
           /\ mailbox_attached' = IF attaches /\ attach_ok THEN TRUE ELSE mailbox_attached
           /\ ioctl' = [ioctl EXCEPT ![t].pc = "acq_unlocked",
                                     ![t].count = IF acq.ret < 0 THEN 0 ELSE acq.ret,
                                     ![t].ret = ret,
                                     ![t].log = IF attaches THEN Append(@, "attach") ELSE @]
           /\ hist' = [hist EXCEPT !.attach = @ + (IF attaches THEN 1 ELSE 0),
                                   !.attach_failed =
                                       @ + (IF attaches /\ ~attach_ok THEN 1 ELSE 0),
                                   !.up = @ + CountUp(wakelock, acq.wl),
                                   !.down = @ + CountDown(acq.wl, rolled)]
    /\ client' = [client EXCEPT !.group_lock = 0]
    /\ UNCHANGED pm_count
    /\ UNCHANGED wl_others

\* faulty variant: a failed acquire keeps the power reference it took
acquire_failed_ignored(ret) == FALSE

\* line 537: if (ret)
acquire_failed(ret) == ret # 0

\* lines 537-547: a failed acquire gives its power reference back
edgetpu_ioctl_acquire_wakelock_return(t) ==
    /\ ioctl[t].pc = "acq_unlocked"
    /\ IF acquire_failed(ioctl[t].ret)
       THEN /\ pm_count' = edgetpu_pm_put
            /\ ioctl' = [ioctl EXCEPT ![t].pc = "ret", ![t].log = Append(@, "pm_put")]
            /\ hist' = [hist EXCEPT !.pm_put = @ + 1]
       ELSE /\ ioctl' = [ioctl EXCEPT ![t].pc = "ret"]
            /\ UNCHANGED <<pm_count, hist>>
    /\ UNCHANGED <<client, wakelock, mailbox_attached>>
    /\ UNCHANGED wl_others

(***************************************************************************)
(* edgetpu_ioctl_release_wakelock().                                       *)
(***************************************************************************)
\* line 460: LOCK(client)
edgetpu_ioctl_release_wakelock_lock(t) ==
    /\ CanCall(t)
    /\ client.group_lock = 0
    /\ client' = [client EXCEPT !.group_lock = t]
    /\ ioctl' = [ioctl EXCEPT ![t] = [op |-> "release", pc |-> "rel_wakelock_lock",
                                       count |-> 0, ret |-> 0, log |-> <<>>]]
    /\ hist' = [hist EXCEPT !.calls = @ + 1]
    /\ UNCHANGED <<wakelock, mailbox_attached, pm_count>>
    /\ UNCHANGED wl_others

\* line 461: edgetpu_wakelock_lock(&client->wakelock)
edgetpu_ioctl_release_wakelock_wakelock_lock(t) ==
    /\ ioctl[t].pc = "rel_wakelock_lock"
    /\ wakelock.lock = 0
    /\ wakelock' = [wakelock EXCEPT !.lock = t]
    /\ ioctl' = [ioctl EXCEPT ![t].pc = "rel_locked"]
    /\ UNCHANGED <<client, mailbox_attached, pm_count, hist>>
    /\ UNCHANGED wl_others

\* faulty variant: the error of edgetpu_wakelock_release() is not returned early
release_failed_ignored(count) == FALSE

\* line 463: if (count < 0)
release_failed(count) == count < 0

\* faulty variant: the mailbox is detached by every successful release
released_some_request(count) == count >= 0

\* line 471: if (!count)
released_last_request(count) == count = 0

\* lines 462-476: the count is given back; a refused release returns its
\* error, the release of the last request detaches the mailbox of the
\* client's group.  Both locks are released.
edgetpu_ioctl_release_wakelock_locked(t) ==
    /\ ioctl[t].pc = "rel_locked"
    /\ LET rel == edgetpu_wakelock_release(wakelock)
           detaches == ~release_failed(rel.ret) /\ released_last_request(rel.ret)
                           /\ client.group
       IN  /\ wakelock' = [rel.wl EXCEPT !.lock = 0]
           /\ mailbox_attached' = IF detaches THEN FALSE ELSE mailbox_attached
           /\ ioctl' = [ioctl EXCEPT
                  ![t].pc = IF release_failed(rel.ret) THEN "ret" ELSE "rel_unlocked",
                  ![t].count = rel.ret,
                  ![t].ret = IF release_failed(rel.ret) THEN rel.ret ELSE 0,
                  ![t].log = IF detaches THEN Append(@, "detach") ELSE @]
           /\ hist' = [hist EXCEPT !.detach = @ + (IF detaches THEN 1 ELSE 0),
                                   !.down = @ + CountDown(wakelock, rel.wl)]
    /\ client' = [client EXCEPT !.group_lock = 0]
    /\ UNCHANGED pm_count
    /\ UNCHANGED wl_others

\* faulty variant: a release returns without giving its power reference back
edgetpu_ioctl_release_wakelock_no_pm_put(t) ==
    /\ ioctl[t].pc = "rel_unlocked"
    /\ ioctl' = [ioctl EXCEPT ![t].pc = "ret"]
    /\ UNCHANGED <<client, wakelock, mailbox_attached, pm_count, hist>>
    /\ UNCHANGED wl_others

\* lines 477-483: edgetpu_pm_put(), return 0
edgetpu_ioctl_release_wakelock_pm_put(t) ==
    /\ ioctl[t].pc = "rel_unlocked"
    /\ pm_count' = edgetpu_pm_put
    /\ ioctl' = [ioctl EXCEPT ![t].pc = "ret", ![t].log = Append(@, "pm_put")]
    /\ hist' = [hist EXCEPT !.pm_put = @ + 1]
    /\ UNCHANGED <<client, wakelock, mailbox_attached>>
    /\ UNCHANGED wl_others

(***************************************************************************)
(* mmap and munmap of a CSR or queue region of the client: the wakelock    *)
(* counts the live mappings, which can be made only while the client holds *)
(* the wakelock (edgetpu_wakelock_inc_event / edgetpu_wakelock_dec_event,  *)
(* under the wakelock's lock).                                             *)
(***************************************************************************)
edgetpu_mmap ==
    /\ hist.calls < MaxCalls
    /\ remove.pc = "idle"
    /\ wakelock.lock = 0
    /\ wakelock.req_count > 0
    /\ wakelock' = [wakelock EXCEPT !.event_count = @ + 1]
    /\ client' = [client EXCEPT !.count = @ + 1]
    /\ hist' = [hist EXCEPT !.calls = @ + 1]
    /\ UNCHANGED <<mailbox_attached, pm_count, ioctl>>
    /\ UNCHANGED wl_others

edgetpu_vma_close ==
    /\ wakelock.lock = 0
    /\ wakelock.event_count > 0
    /\ wakelock' = [wakelock EXCEPT !.event_count = @ - 1]
    /\ client' = [client EXCEPT !.count = @ - 1]
    /\ UNCHANGED <<mailbox_attached, pm_count, ioctl, hist>>
    /\ UNCHANGED wl_others

(***************************************************************************)
(* edgetpu_ioctl_tpu_timestamp(): the register is read under the lock of   *)
(* the wakelock, which edgetpu_wakelock_lock() takes and whose count it    *)
(* returns.                                                                *)
(***************************************************************************)
\* faulty variant: the register is read whatever the count is
tpu_timestamp_ignores_wakelock(count) == FALSE

\* line 436: if (!edgetpu_wakelock_lock(&client->wakelock))
tpu_timestamp_needs_wakelock(count) == count = 0

edgetpu_ioctl_tpu_timestamp ==
    /\ hist.calls < MaxCalls
    /\ remove.pc = "idle"
    /\ wakelock.lock = 0
    /\ hist' = [hist EXCEPT !.calls = @ + 1]
    /\ IF tpu_timestamp_needs_wakelock(wakelock.req_count)
       THEN access' = [NoAccess EXCEPT !.nth = 1 - access.nth, !.op = "tpu_timestamp", !.ret = -EAGAIN,
                                       !.tested = TRUE]
       ELSE \E copied \in BOOLEAN :
              access' = [NoAccess EXCEPT !.nth = 1 - access.nth, !.op = "tpu_timestamp",
                                         !.ret = IF copied THEN 0 ELSE -EFAULT,
                                         !.reads = 1, !.tested = TRUE]
    /\ UNCHANGED <<client, wakelock, mailbox_attached, pm_count, ioctl>>
    /\ UNCHANGED acc_others

(***************************************************************************)
(* edgetpu_mmap() of a region of type `type': `aligned' tells whether      *)
(* vm_start is page-aligned, `pvt' whether edgetpu_vma_private_alloc()     *)
(* succeeds, `mapped' what the mapping of the region returns.              *)
(***************************************************************************)
\* the types of region asked for; the telemetry buffers (VMA_LOG, VMA_TRACE),
\* which need no wakelock, are not
VmaTypes ==
    {"VMA_INVALID", "VMA_FULL_CSR", "VMA_VII_CSR", "VMA_VII_CMDQ", "VMA_VII_RESPQ"}

\* the regions whose mappings are counted as events of the wakelock
WakelockRegions == {"VMA_FULL_CSR", "VMA_VII_CSR", "VMA_VII_CMDQ", "VMA_VII_RESPQ"}

\* edgetpu_wakelock_inc_event(): counts an event if the wakelock is held
edgetpu_wakelock_inc_event(wl) ==
    IF wl.req_count = 0 THEN [ok |-> FALSE, wl |-> wl]
    ELSE [ok |-> TRUE, wl |-> [wl EXCEPT !.event_count = @ + 1]]

\* what edgetpu_mmap returns and leaves behind: [ret, wl, tested, group]
\* where group tells that client->group was looked at
edgetpu_mmap_result(type, aligned, pvt, mapped) ==
    LET inc == edgetpu_wakelock_inc_event(wakelock)
        early(ret) == [ret |-> ret, wl |-> wakelock, tested |-> FALSE]
        late(ret) == [ret |-> ret, tested |-> TRUE,
                      wl |-> IF ret = 0 THEN inc.wl ELSE wakelock]
    IN IF ~aligned THEN early(-EINVAL)
       ELSE IF type = "VMA_INVALID" THEN early(-EINVAL)
       ELSE IF etdev.use_ikv /\ type # "VMA_LOG" THEN early(-EINVAL)
       ELSE IF ~pvt THEN early(-ENOMEM)
       ELSE IF type = "VMA_FULL_CSR"
       THEN IF inc.ok THEN late(mapped) ELSE late(-EAGAIN)
       ELSE IF type = "VMA_LOG" THEN early(mapped)
       ELSE IF ~inc.ok THEN late(-EAGAIN)
       ELSE IF ~client.group THEN late(-EINVAL)
       ELSE late(mapped)

edgetpu_mmap_region ==
    /\ hist.calls < MaxCalls
    /\ remove.pc = "idle"
    /\ wakelock.lock = 0
    /\ client.group_lock = 0
    /\ hist' = [hist EXCEPT !.calls = @ + 1]
    /\ \E type \in VmaTypes, aligned, pvt \in BOOLEAN, mapped \in {0, -EINVAL} :
         LET r == edgetpu_mmap_result(type, aligned, pvt, mapped)
         IN /\ wakelock' = r.wl
            /\ client' = [client EXCEPT !.count = IF r.ret = 0 THEN @ + 1 ELSE @]
            /\ access' = [NoAccess EXCEPT !.nth = 1 - access.nth, !.op = "mmap",
                                          !.region = type \in WakelockRegions,
                                          !.ret = r.ret,
                                          !.maps = IF r.ret = 0 THEN 1 ELSE 0,
                                          !.tested = r.tested]
    /\ UNCHANGED <<mailbox_attached, pm_count, ioctl>>
    /\ UNCHANGED acc_others

AccNext ==
    \/ \E t \in Threads, suspended, pm_ok \in BOOLEAN :
         edgetpu_ioctl_acquire_wakelock_pm_get(t, suspended, pm_ok)
    \/ \E t \in Threads : edgetpu_ioctl_acquire_wakelock_lock(t)
    \/ \E t \in Threads : edgetpu_ioctl_acquire_wakelock_wakelock_lock(t)
    \/ \E t \in Threads, attach_ok \in BOOLEAN :
         edgetpu_ioctl_acquire_wakelock_locked(t, attach_ok)
    \/ \E t \in Threads : edgetpu_ioctl_acquire_wakelock_return(t)
    \/ \E t \in Threads : edgetpu_ioctl_release_wakelock_lock(t)
    \/ \E t \in Threads : edgetpu_ioctl_release_wakelock_wakelock_lock(t)
    \/ \E t \in Threads : edgetpu_ioctl_release_wakelock_locked(t)
    \/ \E t \in Threads : edgetpu_ioctl_release_wakelock_pm_put(t)
    \/ edgetpu_ioctl_tpu_timestamp
    \/ edgetpu_mmap_region
    \/ edgetpu_vma_close

WlNext ==
    \/ \E t \in Threads, suspended, pm_ok \in BOOLEAN :
         edgetpu_ioctl_acquire_wakelock_pm_get(t, suspended, pm_ok)
    \/ \E t \in Threads : edgetpu_ioctl_acquire_wakelock_lock(t)
    \/ \E t \in Threads : edgetpu_ioctl_acquire_wakelock_wakelock_lock(t)
    \/ \E t \in Threads, attach_ok \in BOOLEAN :
         edgetpu_ioctl_acquire_wakelock_locked(t, attach_ok)
    \/ \E t \in Threads : edgetpu_ioctl_acquire_wakelock_return(t)
    \/ \E t \in Threads : edgetpu_ioctl_release_wakelock_lock(t)
    \/ \E t \in Threads : edgetpu_ioctl_release_wakelock_wakelock_lock(t)
    \/ \E t \in Threads : edgetpu_ioctl_release_wakelock_locked(t)
    \/ \E t \in Threads : edgetpu_ioctl_release_wakelock_pm_put(t)
    \/ edgetpu_mmap
    \/ edgetpu_vma_close

(***************************************************************************)
(* edgetpu_client_remove(), called by edgetpu_fs_release() when the file   *)
(* of the client is released: no ioctl of the client is running and no     *)
(* mapping of the file is left (both hold the file).                       *)
(***************************************************************************)
\* faulty variant: the group is never marked
remove_leaves_accessible(wakelock_count, in_group) == FALSE

\* lines 726-727: if (!wakelock_count && client->group)
remove_marks_inaccessible(wakelock_count, in_group) ==
    wakelock_count = 0 /\ in_group

\* the removal of the client as the holder of its group_lock
RemoveHolder == -2

\* faulty variant: group_lock is kept for the rest of the removal
remove_keeps_group_lock(c) == [c EXCEPT !.group_lock = RemoveHolder]

\* line 729: mutex_unlock(&client->group_lock)
remove_group_unlock(c) == [c EXCEPT !.group_lock = 0]

\* lines 715-729: wakelock_count = client->wakelock.req_count and, for a
\* client that holds no wakelock, client->group->dev_inaccessible = true,
\* under group_lock
edgetpu_client_remove_wakelock_count ==
    /\ remove.pc = "idle"
    /\ \A t \in Threads : ioctl[t].pc \in {"idle", "ret"}
    /\ wakelock.event_count = 0
    /\ client.group_lock = 0
    /\ remove' = [remove EXCEPT !.pc = "list_del",
                                !.wakelock_count = wakelock.req_count]
    /\ client' = remove_group_unlock([client EXCEPT !.dev_inaccessible =
                     @ \/ remove_marks_inaccessible(wakelock.req_count, client.group)])
    /\ UNCHANGED <<wakelock, mailbox_attached, pm_count, ioctl, hist>>
    /\ UNCHANGED rm_others

\* lines 731-740: the client is taken off the list of the device, under
\* clients_lock
edgetpu_client_remove_list_del ==
    /\ remove.pc = "list_del"
    /\ ~clients.lock
    /\ clients' = [clients EXCEPT !.listed = FALSE]
    /\ remove' = [remove EXCEPT !.pc = "leave"]
    /\ UNCHANGED <<client, wakelock, mailbox_attached, pm_count, ioctl, hist>>
    /\ UNCHANGED <<ikf_vars, map_vars, grp_vars, access, vma>>

\* The release of the group by its last member removes the group's mailbox:
\* the mailbox CSRs are programmed to disable it unless the group is marked
\* dev_inaccessible.
edgetpu_mailbox_remove_csr(inaccessible) ==
    IF inaccessible THEN "skipped" ELSE "programmed"

\* lines 741-762: the client leaves its group (edgetpu_device_group_leave
\* takes group_lock)
edgetpu_client_remove_leave ==
    /\ remove.pc = "leave"
    /\ client.group => client.group_lock = 0
    /\ IF client.group
       THEN /\ client' = [client EXCEPT !.group = FALSE]
            /\ mailbox_attached' = FALSE
            /\ remove' = [remove EXCEPT
                            !.pc = "put", !.log = Append(@, "leave"),
                            !.csr = edgetpu_mailbox_remove_csr(client.dev_inaccessible)]
       ELSE /\ remove' = [remove EXCEPT !.pc = "put"]
            /\ UNCHANGED <<client, mailbox_attached>>
    /\ UNCHANGED <<wakelock, pm_count, ioctl, hist>>
    /\ UNCHANGED rm_others

\* lines 701-707: refcount_dec_and_test(&client->count), kfree(client)
edgetpu_client_put(c) ==
    [c EXCEPT !.count = @ - 1, !.freed = (c.count = 1)]

\* line 764: edgetpu_client_put(client)
edgetpu_client_remove_put ==
    /\ remove.pc = "put"
    /\ client' = edgetpu_client_put(client)
    /\ remove' = [remove EXCEPT !.pc = "pm_put", !.log = Append(@, "client_put")]
    /\ UNCHANGED <<wakelock, mailbox_attached, pm_count, ioctl, hist>>
    /\ UNCHANGED rm_others

\* faulty variant: while (--wakelock_count)
remove_holds_more_than_one(wakelock_count) == wakelock_count > 1

\* line 767: while (wakelock_count--)
remove_holds_wakelock(wakelock_count) == wakelock_count > 0

\* lines 767-769: one edgetpu_pm_put() per wakelock request still held
edgetpu_client_remove_pm_put ==
    /\ remove.pc = "pm_put"
    /\ IF remove_holds_wakelock(remove.wakelock_count)
       THEN /\ pm_count' = edgetpu_pm_put
            /\ hist' = [hist EXCEPT !.pm_put = @ + 1]
            /\ remove' = [remove EXCEPT !.wakelock_count = @ - 1,
                                        !.log = Append(@, "pm_put")]
       ELSE /\ remove' = [remove EXCEPT !.pc = "done"]
            /\ UNCHANGED <<pm_count, hist>>
    /\ UNCHANGED <<client, wakelock, mailbox_attached, ioctl>>
    /\ UNCHANGED rm_others

RmNext ==
    \/ WlNext
    \/ edgetpu_client_remove_wakelock_count
    \/ edgetpu_client_remove_list_del
    \/ edgetpu_client_remove_leave
    \/ edgetpu_client_remove_put
    \/ edgetpu_client_remove_pm_put

(***************************************************************************)
(* clients_show(), the sysfs listing of the clients of the device          *)
(* (edgetpu-fs.c): under clients_lock, for each client on the list, under  *)
(* the group_lock of the client, the wakelock count is read for the test   *)
(* at line 1198 and again for the line printed.                            *)
(***************************************************************************)
\* the holder of a group_lock that is no ioctl thread
ShowHolder == -1

\* line 1188: mutex_lock(&etdev->clients_lock)
clients_show_lock ==
    /\ clients.pc = "idle"
    /\ ~clients.lock
    /\ clients' = [clients EXCEPT !.lock = TRUE,
                                  !.pc = IF clients.listed THEN "group_lock" ELSE "unlock",
                                  !.count = 0, !.printed = 0]
    /\ UNCHANGED client
    /\ UNCHANGED show_others

\* faulty variant: the listing reads the client without its group_lock
show_skips_group_lock(c) == TRUE

\* line 1194: mutex_lock(&lc->client->group_lock) returns once it is free
show_waits_for_group_lock(c) == c.group_lock = 0

\* line 1194
clients_show_group_lock ==
    /\ clients.pc = "group_lock"
    /\ show_waits_for_group_lock(client)
    /\ client' = [client EXCEPT !.group_lock = ShowHolder]
    /\ clients' = [clients EXCEPT !.pc = "test"]
    /\ UNCHANGED show_others

\* line 1198: if (lc->client->wakelock.req_count)
clients_show_test ==
    /\ clients.pc = "test"
    /\ clients' = [clients EXCEPT !.pc = "print", !.count = wakelock.req_count]
    /\ UNCHANGED client
    /\ UNCHANGED show_others

\* lines 1204-1209: the line of the client, with wakelock.req_count
clients_show_print ==
    /\ clients.pc = "print"
    /\ clients' = [clients EXCEPT !.pc = "group_unlock", !.printed = wakelock.req_count]
    /\ UNCHANGED client
    /\ UNCHANGED show_others

\* line 1210: mutex_unlock(&lc->client->group_lock)
clients_show_group_unlock ==
    /\ clients.pc = "group_unlock"
    /\ client' = [client EXCEPT !.group_lock = 0]
    /\ clients' = [clients EXCEPT !.pc = "unlock"]
    /\ UNCHANGED show_others

\* line 1214: mutex_unlock(&etdev->clients_lock)
clients_show_unlock ==
    /\ clients.pc = "unlock"
    /\ clients' = [clients EXCEPT !.lock = FALSE, !.pc = "idle"]
    /\ UNCHANGED client
    /\ UNCHANGED show_others

ShowNext ==
    \/ RmNext
    \/ clients_show_lock
    \/ clients_show_group_lock
    \/ clients_show_test
    \/ clients_show_print
    \/ clients_show_group_unlock
    \/ clients_show_unlock

(***************************************************************************)
(* The locks taken by edgetpu_ioctl_finalize_group(),                      *)
(* edgetpu_ioctl_tpu_timestamp() and edgetpu_mmap(), one step per lock     *)
(* taken and per section left, so that the calls interleave with the       *)
(* wakelock ioctls, the listing of the clients and the removal.            *)
(***************************************************************************)
\* edgetpu-fs.c lines 204-209: LOCK(client); a client without group unlocks
\* and returns 0
edgetpu_ioctl_finalize_group_lock(t) ==
    /\ CanCall(t)
    /\ client.group_lock = 0
    /\ IF ~client.group
       THEN /\ ioctl' = [ioctl EXCEPT ![t] = [op |-> "finalize", pc |-> "ret",
                                              count |-> 0, ret |-> 0, log |-> <<>>]]
            /\ UNCHANGED client
       ELSE /\ ioctl' = [ioctl EXCEPT ![t] = [op |-> "finalize",
                                              pc |-> "fin_wakelock_lock",
                                              count |-> 0, ret |-> 0, log |-> <<>>]]
            /\ client' = [client EXCEPT !.group_lock = t]
    /\ hist' = [hist EXCEPT !.calls = @ + 1]
    /\ UNCHANGED <<wakelock, mailbox_attached, pm_count>>
    /\ UNCHANGED wl_others

\* edgetpu-fs.c line 215: edgetpu_wakelock_lock(&client->wakelock)
edgetpu_ioctl_finalize_group_wakelock_lock(t) ==
    /\ ioctl[t].pc = "fin_wakelock_lock"
    /\ wakelock.lock = 0
    /\ wakelock' = [wakelock EXCEPT !.lock = t]
    /\ ioctl' = [ioctl EXCEPT ![t].pc = "fin_locked"]
    /\ UNCHANGED <<client, mailbox_attached, pm_count, hist>>
    /\ UNCHANGED wl_others

\* edgetpu-fs.c lines 216-220: edgetpu_device_group_finalize() returns ret;
\* the wakelock, then the client are unlocked
edgetpu_ioctl_finalize_group_locked(t, ret) ==
    /\ ioctl[t].pc = "fin_locked"
    /\ wakelock' = [wakelock EXCEPT !.lock = 0]
    /\ client' = [client EXCEPT !.group_lock = 0]
    /\ ioctl' = [ioctl EXCEPT ![t].pc = "ret", ![t].ret = ret]
    /\ UNCHANGED <<mailbox_attached, pm_count, hist>>
    /\ UNCHANGED wl_others

\* edgetpu-fs.c line 436: edgetpu_wakelock_lock() returns the count
edgetpu_ioctl_tpu_timestamp_lock(t) ==
    /\ CanCall(t)
    /\ wakelock.lock = 0
    /\ wakelock' = [wakelock EXCEPT !.lock = t]
    /\ ioctl' = [ioctl EXCEPT ![t] = [op |-> "timestamp", pc |-> "ts_locked",
                                       count |-> wakelock.req_count, ret |-> 0,
                                       log |-> <<>>]]
    /\ hist' = [hist EXCEPT !.calls = @ + 1]
    /\ UNCHANGED <<client, mailbox_attached, pm_count>>
    /\ UNCHANGED wl_others

\* edgetpu-fs.c lines 437-445: edgetpu_wakelock_unlock() on either branch,
\* then copy_to_user
edgetpu_ioctl_tpu_timestamp_unlock(t, copied) ==
    /\ ioctl[t].pc = "ts_locked"
    /\ tpu_timestamp_needs_wakelock(ioctl[t].count) => copied
    /\ wakelock' = [wakelock EXCEPT !.lock = 0]
    /\ ioctl' = [ioctl EXCEPT ![t].pc = "ret",
                              ![t].ret = IF tpu_timestamp_needs_wakelock(ioctl[t].count)
                                         THEN -EAGAIN
                                         ELSE IF copied THEN 0 ELSE -EFAULT]
    /\ UNCHANGED <<client, mailbox_attached, pm_count, hist>>
    /\ UNCHANGED wl_others

\* edgetpu_mmap() of a queue or CSR region of the group, line 412:
\* edgetpu_wakelock_inc_event(), which takes and leaves the wakelock's lock
edgetpu_mmap_inc_event(t) ==
    /\ CanCall(t)
    /\ wakelock.lock = 0
    /\ LET inc == edgetpu_wakelock_inc_event(wakelock)
       IN /\ wakelock' = inc.wl
          /\ ioctl' = [ioctl EXCEPT ![t] =
                         [op |-> "mmap", count |-> 0, log |-> <<>>,
                          pc |-> IF inc.ok THEN "mmap_group_lock" ELSE "ret",
                          ret |-> IF inc.ok THEN 0 ELSE -EAGAIN]]
    /\ hist' = [hist EXCEPT !.calls = @ + 1]
    /\ UNCHANGED <<client, mailbox_attached, pm_count>>
    /\ UNCHANGED wl_others

\* line 417: mutex_lock(&client->group_lock)
edgetpu_mmap_group_lock(t) ==
    /\ ioctl[t].pc = "mmap_group_lock"
    /\ client.group_lock = 0
    /\ client' = [client EXCEPT !.group_lock = t]
    /\ ioctl' = [ioctl EXCEPT ![t].pc = "mmap_locked"]
    /\ UNCHANGED <<wakelock, mailbox_attached, pm_count, hist>>
    /\ UNCHANGED wl_others

\* lines 418-454: the region is mapped (`mapped' is what the mapping returns)
\* unless the client has no group; group_lock is released; a VMA that was
\* mapped keeps its reference on the client
edgetpu_mmap_group_unlock(t, mapped) ==
    /\ ioctl[t].pc = "mmap_locked"
    /\ LET ret == IF ~client.group THEN -EINVAL ELSE mapped
       IN /\ client' = [client EXCEPT !.group_lock = 0,
                                      !.count = IF ret = 0 THEN @ + 1 ELSE @]
          /\ ioctl' = [ioctl EXCEPT ![t].pc = IF ret = 0 THEN "ret" ELSE "mmap_dec_evt",
                                    ![t].ret = ret]
    /\ UNCHANGED <<wakelock, mailbox_attached, pm_count, hist>>
    /\ UNCHANGED wl_others

\* lines 446-448: if (ret) edgetpu_wakelock_dec_event(), under the
\* wakelock's lock
edgetpu_mmap_dec_event(t) ==
    /\ ioctl[t].pc = "mmap_dec_evt"
    /\ wakelock.lock = 0
    /\ wakelock' = [wakelock EXCEPT !.event_count = @ - 1]
    /\ ioctl' = [ioctl EXCEPT ![t].pc = "ret"]
    /\ UNCHANGED <<client, mailbox_attached, pm_count, hist>>
    /\ UNCHANGED wl_others

LockNext ==
    \/ ShowNext
    \/ \E t \in Threads : edgetpu_ioctl_finalize_group_lock(t)
    \/ \E t \in Threads : edgetpu_ioctl_finalize_group_wakelock_lock(t)
    \/ \E t \in Threads, ret \in {0, -EINVAL} : edgetpu_ioctl_finalize_group_locked(t, ret)
    \/ \E t \in Threads : edgetpu_ioctl_tpu_timestamp_lock(t)
    \/ \E t \in Threads, copied \in BOOLEAN : edgetpu_ioctl_tpu_timestamp_unlock(t, copied)
    \/ \E t \in Threads : edgetpu_mmap_inc_event(t)
    \/ \E t \in Threads : edgetpu_mmap_group_lock(t)
    \/ \E t \in Threads, mapped \in {0, -EINVAL} : edgetpu_mmap_group_unlock(t, mapped)
    \/ \E t \in Threads : edgetpu_mmap_dec_event(t)

(***************************************************************************)
(* The VMAs of a client: edgetpu_mmap() with its struct edgetpu_vma_private *)
(* (which holds a reference on the client and is shared by the copies of   *)
(* the VMA), edgetpu_vma_open() and edgetpu_vma_close().                   *)
(***************************************************************************)
\* lines 223-244
vma_type_to_wakelock_event(type) ==
    CASE type = "VMA_FULL_CSR" -> "FULL_CSR"
      [] type = "VMA_VII_CSR" -> "MBOX_CSR"
      [] type = "VMA_VII_CMDQ" -> "CMD_QUEUE"
      [] type = "VMA_VII_RESPQ" -> "RESP_QUEUE"
      [] OTHER -> "END"

\* edgetpu_wakelock_inc_event() on event evt: refused when the wakelock is
\* not held; wl.event_count is the sum of the counts of all events
inc_event(wl, v, evt) ==
    IF wl.req_count = 0 THEN [wl |-> wl, v |-> v]
    ELSE [wl |-> [wl EXCEPT !.event_count = @ + 1],
          v |-> [v EXCEPT !.event_count[evt] = @ + 1]]

\* edgetpu_wakelock_dec_event() on event evt: refused when the count is zero
dec_event(wl, v, evt) ==
    IF v.event_count[evt] = 0 THEN [wl |-> wl, v |-> v]
    ELSE [wl |-> [wl EXCEPT !.event_count = @ - 1],
          v |-> [v EXCEPT !.event_count[evt] = @ - 1]]

\* lines 246-260: edgetpu_vma_private_alloc(), with edgetpu_client_get()
edgetpu_vma_private_alloc(v, p, type) ==
    [v EXCEPT !.pvt[p] = [state |-> "live", type |-> type, count |-> 1]]

\* lines 342-458: edgetpu_mmap() of a region of type `type' into a new VMA.
\* A call that fails after edgetpu_vma_private_alloc() puts the pvt, which
\* drops the reference on the client again (err_release_pvt).
edgetpu_mmap_vma(p, type, aligned, pvt, mapped) ==
    /\ hist.calls < MaxCalls
    /\ remove.pc = "idle"
    /\ wakelock.lock = 0
    /\ client.group_lock = 0
    /\ vma.pvt[p].state = "none"
    /\ \A q \in Pvts : q < p => vma.pvt[q].state # "none"
    /\ hist' = [hist EXCEPT !.calls = @ + 1]
    /\ LET r == edgetpu_mmap_result(type, aligned, pvt, mapped)
           evt == vma_type_to_wakelock_event(type)
       IN IF r.ret = 0
          THEN /\ client' = [client EXCEPT !.count = @ + 1]
               /\ wakelock' = r.wl
               /\ vma' = IF evt = "END"
                         THEN edgetpu_vma_private_alloc(vma, p, type)
                         ELSE edgetpu_vma_private_alloc(
                                  inc_event(wakelock, vma, evt).v, p, type)
          ELSE UNCHANGED <<client, wakelock, vma>>
    /\ UNCHANGED vma_others

\* faulty variant: the copy of a VMA is not counted as an event
vma_open_counts_nothing(evt) == FALSE

\* line 289: if (evt != EDGETPU_WAKELOCK_EVENT_END)
vma_open_counts(evt) == evt # "END"

\* lines 276-306: edgetpu_vma_open(), for a copy of a VMA of pvt p
edgetpu_vma_open(p) ==
    /\ vma.pvt[p].state = "live"
    /\ vma.pvt[p].count < MaxVmas
    /\ wakelock.lock = 0
    /\ LET evt == vma_type_to_wakelock_event(vma.pvt[p].type)
           got == [vma EXCEPT !.pvt[p].count = @ + 1]
           inc == IF vma_open_counts(evt) THEN inc_event(wakelock, got, evt)
                  ELSE [wl |-> wakelock, v |-> got]
       IN /\ wakelock' = inc.wl
          /\ vma' = inc.v
    /\ UNCHANGED <<client, hist>>
    /\ UNCHANGED vma_others

\* faulty variant: every VMA that is closed drops the client
vma_private_put_always(pvt) == TRUE

\* line 270: if (refcount_dec_and_test(&pvt->count))
vma_private_put_last(pvt) == pvt.count = 1

\* lines 309-334: edgetpu_vma_close() of one VMA of pvt p, with
\* edgetpu_vma_private_put() (lines 266-274)
edgetpu_vma_close_pvt(p) ==
    /\ vma.pvt[p].state = "live"
    /\ wakelock.lock = 0
    /\ LET evt == vma_type_to_wakelock_event(vma.pvt[p].type)
           dec == IF evt # "END" THEN dec_event(wakelock, vma, evt)
                  ELSE [wl |-> wakelock, v |-> vma]
           last == vma.pvt[p].count = 1
       IN /\ wakelock' = dec.wl
          /\ vma' = [dec.v EXCEPT !.pvt[p] =
                       IF last THEN [NoPvt EXCEPT !.state = "freed"]
                       ELSE [@ EXCEPT !.count = @ - 1]]
          /\ client' = IF vma_private_put_last(vma.pvt[p])
                       THEN edgetpu_client_put(client) ELSE client
    /\ UNCHANGED hist
    /\ UNCHANGED vma_others

\* the types of region a VMA is asked for
MmapTypes == VmaTypes \cup {"VMA_LOG"}

VmaNext ==
    \/ \E t \in Threads, suspended, pm_ok \in BOOLEAN :
         edgetpu_ioctl_acquire_wakelock_pm_get(t, suspended, pm_ok)
    \/ \E t \in Threads : edgetpu_ioctl_acquire_wakelock_lock(t)
    \/ \E t \in Threads : edgetpu_ioctl_acquire_wakelock_wakelock_lock(t)
    \/ \E t \in Threads, attach_ok \in BOOLEAN :
         edgetpu_ioctl_acquire_wakelock_locked(t, attach_ok)
    \/ \E t \in Threads : edgetpu_ioctl_acquire_wakelock_return(t)
    \/ \E t \in Threads : edgetpu_ioctl_release_wakelock_lock(t)
    \/ \E t \in Threads : edgetpu_ioctl_release_wakelock_wakelock_lock(t)
    \/ \E t \in Threads : edgetpu_ioctl_release_wakelock_locked(t)
    \/ \E t \in Threads : edgetpu_ioctl_release_wakelock_pm_put(t)
    \/ \E p \in Pvts, type \in MmapTypes, aligned, pvt \in BOOLEAN,
          mapped \in {0, -EINVAL} : edgetpu_mmap_vma(p, type, aligned, pvt, mapped)
    \/ \E p \in Pvts : edgetpu_vma_open(p)
    \/ \E p \in Pvts : edgetpu_vma_close_pvt(p)
    \/ edgetpu_client_remove_wakelock_count
    \/ edgetpu_client_remove_list_del
    \/ edgetpu_client_remove_leave
    \/ edgetpu_client_remove_put
    \/ edgetpu_client_remove_pm_put

(***************************************************************************)
(* The tracker of the device addresses mapped in a group                   *)
(* (struct edgetpu_mapping_root): a red-black tree of mappings keyed by    *)
(* device address, with a count and a mutex.  The tree is kept as the      *)
(* sequence of its mappings in key order; a descent from the root is       *)
(* computed for every shape a binary search tree over that sequence can    *)
(* have, since rb_insert_color and rb_erase reshape the tree.              *)
(***************************************************************************)
\* number of struct edgetpu_mapping objects the callers create
NumMappings == 3
\* largest size of a mapping
MaxSize == 2
\* width of tpu_addr_t, scaled down from 64 bits
TPU_ADDR_BITS == 2
EBUSY == 16

Maps == 1..NumMappings
TpuAddrs == 0..(2^TPU_ADDR_BITS - 1)
Sizes == 0..MaxSize

\* addition of tpu_addr_t values
TpuAdd(a, b) == (a + b) % (2^TPU_ADDR_BITS)

NoMap == [state |-> "new", device_address |-> 0, size |-> 0, release |-> FALSE,
          released |-> 0]
NoMapOp == [op |-> "none", map |-> NULL, iova |-> 0, ret |-> 0]

\* lines 148-157
compare(m, iova) ==
    IF m.device_address # iova
    THEN (IF m.device_address < iova THEN -1 ELSE 1)
    ELSE 0

\* faulty variant: the end of the range is taken as part of it
iova_in_mapping_end_inclusive(m, iova) ==
    IF TpuAdd(m.device_address, m.size) < iova THEN -1
    ELSE IF iova < m.device_address THEN 1
    ELSE 0

\* lines 311-318
iova_in_mapping(m, iova) ==
    IF TpuAdd(m.device_address, m.size) <= iova THEN -1
    ELSE IF iova < m.device_address THEN 1
    ELSE 0

\* lines 202-222: the mappings a descent by compare() can end at, NULL for
\* none, over the shapes of the tree
RECURSIVE edgetpu_mapping_find_locked(_, _, _)
edgetpu_mapping_find_locked(ms, rb, iova) ==
    IF rb = <<>> THEN {NULL}
    ELSE UNION {
        LET cmp == compare(ms[rb[i]], iova) IN
        IF cmp > 0 THEN edgetpu_mapping_find_locked(ms, SubSeq(rb, 1, i - 1), iova)
        ELSE IF cmp < 0
        THEN edgetpu_mapping_find_locked(ms, SubSeq(rb, i + 1, Len(rb)), iova)
        ELSE {rb[i]} : i \in 1..Len(rb)}

\* lines 320-339: the same descent by iova_in_mapping()
RECURSIVE edgetpu_mapping_find_iova_range(_, _, _)
edgetpu_mapping_find_iova_range(ms, rb, iova) ==
    IF rb = <<>> THEN {NULL}
    ELSE UNION {
        LET cmp == iova_in_mapping(ms[rb[i]], iova) IN
        IF cmp > 0 THEN edgetpu_mapping_find_iova_range(ms, SubSeq(rb, 1, i - 1), iova)
        ELSE IF cmp < 0
        THEN edgetpu_mapping_find_iova_range(ms, SubSeq(rb, i + 1, Len(rb)), iova)
        ELSE {rb[i]} : i \in 1..Len(rb)}

\* lines 192-193: rb_link_node at the leaf the descent of add ended at
rb_link_node(ms, rb, m, device_address) ==
    LET k == Cardinality({i \in 1..Len(rb) : ms[rb[i]].device_address < device_address})
    IN  SubSeq(rb, 1, k) \o <<m>> \o SubSeq(rb, k + 1, Len(rb))

\* line 227: rb_erase
rb_erase(rb, m) == SelectSeq(rb, LAMBDA x : x # m)

\* a thread that is in no operation on the tracker
NoTrk == [pc |-> "idle", m |-> NULL, iova |-> 0, cur |-> 0, total |-> 0,
          cb |-> FALSE]

\* lines 159-164
edgetpu_mapping_init ==
    /\ mappings = [rb |-> <<>>, count |-> 0, lock |-> FALSE]
    /\ map = [m \in Maps |-> NoMap]
    /\ mapop = NoMapOp
    /\ trk = [t \in Threads |-> NoTrk]

\* faulty variant: the descent of add never finds an equal key
add_finds_nothing(ms, rb, iova) == {NULL}

\* lines 178-190: the descent of add
add_finds(ms, rb, iova) == edgetpu_mapping_find_locked(ms, rb, iova)

\* lines 166-200; the caller made mapping m with this address, size and
\* release callback (mappings are made in the order of their numbers).  The
\* device addresses come from the IOMMU domain of the group: a range ends
\* below the end of the tpu_addr_t space.
edgetpu_mapping_add(m, device_address, size, release) ==
    /\ map[m].state = "new"
    /\ device_address + size < 2^TPU_ADDR_BITS
    /\ m > 1 => map[m - 1].state # "new"
    /\ ~mappings.lock
    /\ IF ~release
       THEN /\ map' = [map EXCEPT ![m].state = "rejected", ![m].release = FALSE]
            /\ mapop' = [op |-> "add", map |-> m, iova |-> device_address, ret |-> -EINVAL]
            /\ UNCHANGED mappings
       ELSE \E this \in add_finds(map, mappings.rb, device_address) :
              IF this # NULL
              THEN /\ map' = [map EXCEPT ![m].state = "rejected", ![m].release = TRUE]
                   /\ mapop' = [op |-> "add", map |-> m, iova |-> device_address,
                                ret |-> -EBUSY]
                   /\ UNCHANGED mappings
              ELSE /\ map' = [map EXCEPT ![m] =
                                 [state |-> "linked", device_address |-> device_address,
                                  size |-> size, release |-> TRUE, released |-> 0]]
                   /\ mappings' = [mappings EXCEPT
                                      !.rb = rb_link_node(map, @, m, device_address),
                                      !.count = @ + 1]
                   /\ mapop' = [op |-> "add", map |-> m, iova |-> device_address,
                                ret |-> 0]
    /\ UNCHANGED map_others

\* a lookup by device address: edgetpu_mapping_find_locked() under the lock
edgetpu_mapping_find(iova) ==
    /\ ~mappings.lock
    /\ \E found \in edgetpu_mapping_find_locked(map, mappings.rb, iova) :
          mapop' = [op |-> "find", map |-> found, iova |-> iova, ret |-> 0]
    /\ UNCHANGED <<mappings, map>>
    /\ UNCHANGED map_others

\* a lookup by contained address: edgetpu_mapping_find_iova_range()
edgetpu_mapping_find_iova(iova) ==
    /\ ~mappings.lock
    /\ \E found \in edgetpu_mapping_find_iova_range(map, mappings.rb, iova) :
          mapop' = [op |-> "find_iova_range", map |-> found, iova |-> iova, ret |-> 0]
    /\ UNCHANGED <<mappings, map>>
    /\ UNCHANGED map_others

\* lines 224-229
edgetpu_mapping_unlink(root, m) ==
    [root EXCEPT !.rb = rb_erase(@, m), !.count = @ - 1]

\* map->release(map): the callback runs and the mapping is freed
release(ms, m) ==
    [ms EXCEPT ![m] = [NoMap EXCEPT !.state = "released",
                                   !.released = ms[m].released + 1]]

\* the explicit unmap of the mapping at a device address: under the lock,
\* find it, unlink it and call its release callback
edgetpu_device_group_unmap(iova) ==
    /\ ~mappings.lock
    /\ \E found \in edgetpu_mapping_find_locked(map, mappings.rb, iova) :
          IF found = NULL
          THEN /\ mapop' = [op |-> "unmap", map |-> NULL, iova |-> iova, ret |-> -EINVAL]
               /\ UNCHANGED <<mappings, map>>
          ELSE /\ mappings' = edgetpu_mapping_unlink(mappings, found)
               /\ map' = release(map, found)
               /\ mapop' = [op |-> "unmap", map |-> found, iova |-> iova, ret |-> 0]
    /\ UNCHANGED map_others

\* line 245: edgetpu_mapping_lock(mappings)
edgetpu_mapping_clear_lock ==
    /\ ~mappings.lock
    /\ mappings.rb # <<>> \/ mapop.op # "clear"
    /\ mappings' = [mappings EXCEPT !.lock = TRUE]
    /\ mapop' = [op |-> "clear", map |-> NULL, iova |-> 0, ret |-> 0]
    /\ UNCHANGED map
    /\ UNCHANGED map_others

\* lines 231-239: rb_first
edgetpu_mapping_first_locked(root) ==
    IF root.rb = <<>> THEN NULL ELSE Head(root.rb)

\* faulty variant: the sweep releases the mapping and leaves it in the tree
clear_keeps_linked(root, m) == root

\* line 249
clear_unlinks(root, m) == edgetpu_mapping_unlink(root, m)

\* lines 247-251: one turn of the loop
edgetpu_mapping_clear_release ==
    /\ mappings.lock
    /\ edgetpu_mapping_first_locked(mappings) # NULL
    /\ LET m == edgetpu_mapping_first_locked(mappings) IN
         /\ mappings' = clear_unlinks(mappings, m)
         /\ map' = release(map, m)
         /\ mapop' = [mapop EXCEPT !.ret = @ + 1]
    /\ UNCHANGED map_others

\* line 253: the loop is over, edgetpu_mapping_unlock(mappings)
edgetpu_mapping_clear_unlock ==
    /\ mappings.lock
    /\ edgetpu_mapping_first_locked(mappings) = NULL
    /\ mappings' = [mappings EXCEPT !.lock = FALSE]
    /\ UNCHANGED <<map, mapop>>
    /\ UNCHANGED map_others

MapNext ==
    \/ \E m \in Maps, device_address \in TpuAddrs, size \in Sizes, cb \in BOOLEAN :
          edgetpu_mapping_add(m, device_address, size, cb)
    \/ \E iova \in TpuAddrs : edgetpu_mapping_find(iova)
    \/ \E iova \in TpuAddrs : edgetpu_mapping_find_iova(iova)
    \/ \E iova \in TpuAddrs : edgetpu_device_group_unmap(iova)
    \/ edgetpu_mapping_clear_lock
    \/ edgetpu_mapping_clear_release
    \/ edgetpu_mapping_clear_unlock

(***************************************************************************)
(* The operations on the tracker as several threads execute them, one      *)
(* step per lock operation and per turn of a loop: mappings->lock is a     *)
(* mutex, a thread that finds it taken waits.                              *)
(***************************************************************************)
\* the positions of a thread between its mutex_lock and its mutex_unlock
TrkLocked == {"add_locked", "add_out", "unmap_locked", "unmap_out",
              "clear_locked", "clear_release", "clear_out",
              "total_locked"}

\* faulty variant: add goes on without the lock
add_skips_lock(root) == TRUE

\* line 175: edgetpu_mapping_lock(mappings) returns once the mutex is free
add_waits_for_lock(root) == ~root.lock

\* lines 172-176: the caller made mapping m with this address and size and
\* a release callback; edgetpu_mapping_lock()
add_lock(t, m, device_address, size) ==
    /\ trk[t].pc = "idle"
    /\ map[m].state = "new"
    /\ device_address + size < 2^TPU_ADDR_BITS
    /\ m > 1 => map[m - 1].state # "new"
    /\ add_waits_for_lock(mappings)
    /\ mappings' = [mappings EXCEPT !.lock = TRUE]
    /\ map' = [map EXCEPT ![m] =
                 [state |-> "adding", device_address |-> device_address,
                  size |-> size, release |-> TRUE, released |-> 0]]
    /\ trk' = [trk EXCEPT ![t] = [NoTrk EXCEPT !.pc = "add_locked", !.m = m,
                                               !.iova = device_address]]
    /\ UNCHANGED trk_others

\* lines 178-195: the descent; rb_link_node, rb_insert_color, count++
add_link(t) ==
    /\ trk[t].pc = "add_locked"
    /\ LET m == trk[t].m IN
       \E this \in add_finds(map, mappings.rb, trk[t].iova) :
          IF this # NULL
          THEN /\ map' = [map EXCEPT ![m].state = "rejected"]
               /\ trk' = [trk EXCEPT ![t].pc = "add_out", ![t].total = -EBUSY]
               /\ UNCHANGED mappings
          ELSE /\ map' = [map EXCEPT ![m].state = "linked"]
               /\ mappings' = [mappings EXCEPT
                                  !.rb = rb_link_node(map, @, m, trk[t].iova),
                                  !.count = @ + 1]
               /\ trk' = [trk EXCEPT ![t].pc = "add_out"]
    /\ UNCHANGED trk_others

\* lines 197-199: edgetpu_mapping_unlock(), return
add_unlock(t) ==
    /\ trk[t].pc = "add_out"
    /\ mappings' = [mappings EXCEPT !.lock = FALSE]
    /\ trk' = [trk EXCEPT ![t] = NoTrk]
    /\ UNCHANGED map
    /\ UNCHANGED trk_others

\* the unmap of a device address by the group: edgetpu_mapping_lock()
unmap_lock(t, iova) ==
    /\ trk[t].pc = "idle"
    /\ ~mappings.lock
    /\ mappings' = [mappings EXCEPT !.lock = TRUE]
    /\ trk' = [trk EXCEPT ![t] = [NoTrk EXCEPT !.pc = "unmap_locked", !.iova = iova]]
    /\ UNCHANGED map
    /\ UNCHANGED trk_others

\* edgetpu_mapping_find_locked(), then edgetpu_mapping_unlink() (lines
\* 224-229) of the mapping found; its release callback is one that takes the
\* lock of the tracker, or one that does not
unmap_unlink(t) ==
    /\ trk[t].pc = "unmap_locked"
    /\ \E found \in edgetpu_mapping_find_locked(map, mappings.rb, trk[t].iova) :
          IF found = NULL
          THEN /\ trk' = [trk EXCEPT ![t].pc = "unmap_out"]
               /\ UNCHANGED <<mappings, map>>
          ELSE /\ mappings' = edgetpu_mapping_unlink(mappings, found)
               /\ map' = [map EXCEPT ![found].state = "unlinked"]
               /\ \E cb \in BOOLEAN :
                    trk' = [trk EXCEPT ![t].pc = "unmap_out", ![t].m = found,
                                       ![t].cb = cb]
    /\ UNCHANGED trk_others

\* edgetpu_mapping_unlock(); the mapping found is released after it
unmap_unlock(t) ==
    /\ trk[t].pc = "unmap_out"
    /\ mappings' = [mappings EXCEPT !.lock = FALSE]
    /\ trk' = [trk EXCEPT ![t] = IF trk[t].m = NULL THEN NoTrk
                                 ELSE [@ EXCEPT !.pc = "unmap_release"]]
    /\ UNCHANGED map
    /\ UNCHANGED trk_others

\* map->release(map) can run: a callback that takes the lock of the tracker
\* (and gives it back before it returns) waits for the mutex
release_can_run(root, cb) == cb => ~root.lock

\* map->release(map) called by the unmap
unmap_release(t) ==
    /\ trk[t].pc = "unmap_release"
    /\ release_can_run(mappings, trk[t].cb)
    /\ map' = release(map, trk[t].m)
    /\ trk' = [trk EXCEPT ![t] = NoTrk]
    /\ UNCHANGED mappings
    /\ UNCHANGED trk_others

\* line 245: edgetpu_mapping_lock(mappings)
clear_lock(t) ==
    /\ trk[t].pc = "idle"
    /\ ~mappings.lock
    /\ mappings' = [mappings EXCEPT !.lock = TRUE]
    /\ trk' = [trk EXCEPT ![t] = [NoTrk EXCEPT !.pc = "clear_locked"]]
    /\ UNCHANGED map
    /\ UNCHANGED trk_others

\* lines 247-249: edgetpu_mapping_first_locked(), edgetpu_mapping_unlink()
clear_first(t) ==
    /\ trk[t].pc = "clear_locked"
    /\ LET m == edgetpu_mapping_first_locked(mappings) IN
         IF m = NULL
         THEN /\ trk' = [trk EXCEPT ![t].pc = "clear_out"]
              /\ UNCHANGED <<mappings, map>>
         ELSE /\ mappings' = clear_unlinks(mappings, m)
              /\ map' = [map EXCEPT ![m].state = "unlinked"]
              /\ \E cb \in BOOLEAN :
                   trk' = [trk EXCEPT ![t].pc = "clear_release", ![t].m = m,
                                      ![t].cb = cb]
    /\ UNCHANGED trk_others

\* line 250: map->release(map), called with the lock still held
clear_release(t) ==
    /\ trk[t].pc = "clear_release"
    /\ release_can_run(mappings, trk[t].cb)
    /\ map' = release(map, trk[t].m)
    /\ trk' = [trk EXCEPT ![t].pc = "clear_locked", ![t].m = NULL]
    /\ UNCHANGED mappings
    /\ UNCHANGED trk_others

\* line 253: edgetpu_mapping_unlock(mappings)
clear_unlock(t) ==
    /\ trk[t].pc = "clear_out"
    /\ mappings' = [mappings EXCEPT !.lock = FALSE]
    /\ trk' = [trk EXCEPT ![t] = NoTrk]
    /\ UNCHANGED map
    /\ UNCHANGED trk_others

\* lines 279-281: edgetpu_mapping_lock(mappings); rb_first()
total_size_lock(t) ==
    /\ trk[t].pc = "idle"
    /\ ~mappings.lock
    /\ mappings' = [mappings EXCEPT !.lock = TRUE]
    /\ trk' = [trk EXCEPT ![t] = [NoTrk EXCEPT !.pc = "total_locked", !.cur = 1]]
    /\ UNCHANGED map
    /\ UNCHANGED trk_others

\* lines 281-286: one turn of the loop, total += size, rb_next()
total_size_next(t) ==
    /\ trk[t].pc = "total_locked"
    /\ trk[t].cur <= Len(mappings.rb)
    /\ trk' = [trk EXCEPT ![t].total = @ + map[mappings.rb[trk[t].cur]].size,
                          ![t].cur = @ + 1]
    /\ UNCHANGED <<mappings, map>>
    /\ UNCHANGED trk_others

\* lines 288-289: the loop is over, edgetpu_mapping_unlock(), return total
total_size_unlock(t) ==
    /\ trk[t].pc = "total_locked"
    /\ trk[t].cur > Len(mappings.rb)
    /\ mappings' = [mappings EXCEPT !.lock = FALSE]
    /\ trk' = [trk EXCEPT ![t] = NoTrk]
    /\ UNCHANGED map
    /\ UNCHANGED trk_others

TrkNext ==
    \/ \E t \in Threads, m \in Maps, device_address \in TpuAddrs, size \in Sizes :
          add_lock(t, m, device_address, size)
    \/ \E t \in Threads : add_link(t)
    \/ \E t \in Threads : add_unlock(t)
    \/ \E t \in Threads, iova \in TpuAddrs : unmap_lock(t, iova)
    \/ \E t \in Threads : unmap_unlink(t)
    \/ \E t \in Threads : unmap_unlock(t)
    \/ \E t \in Threads : unmap_release(t)
    \/ \E t \in Threads : clear_lock(t)
    \/ \E t \in Threads : clear_first(t)
    \/ \E t \in Threads : clear_release(t)
    \/ \E t \in Threads : clear_unlock(t)
    \/ \E t \in Threads : total_size_lock(t)
    \/ \E t \in Threads : total_size_next(t)
    \/ \E t \in Threads : total_size_unlock(t)

(***************************************************************************)
(* The group ioctls of a client (edgetpu-fs.c).  LOCK(client) is the       *)
(* client's group_lock.  The functions of edgetpu-device-group.c and of    *)
(* the in-kernel VII mailbox that the ioctls call are modelled from their  *)
(* contract; one group is created in a behaviour.                          *)
(***************************************************************************)
\* number of group ioctl calls in one behaviour
MaxOps == 3
\* number of VII commands submitted in one behaviour
MaxCommands == 2

\* number of unrecoverable firmware crashes in one behaviour
MaxFaults == 1
\* number of credits that earlier commands leave free at the start of a
\* behaviour, and number of earlier commands answered in it
MaxBacklog == 1

EOPNOTSUPP == 95
ENOENT == 2
EDGETPU_ERROR_FW_CRASH == 1
EDGETPU_ERROR_WATCHDOG_TIMEOUT == 2
EDGETPU_NUM_VII_CREDITS == 8
VII_RESPONSE_CODE_KERNEL_BASE == 32768
VII_RESPONSE_CODE_KERNEL_CMD_TIMEOUT == VII_RESPONSE_CODE_KERNEL_BASE + 0
VII_RESPONSE_CODE_KERNEL_ENQUEUE_FAILED == VII_RESPONSE_CODE_KERNEL_BASE + 1
VII_RESPONSE_CODE_KERNEL_FENCE_ERROR == VII_RESPONSE_CODE_KERNEL_BASE + 2
VII_RESPONSE_CODE_KERNEL_FENCE_TIMEOUT == VII_RESPONSE_CODE_KERNEL_BASE + 3
VII_RESPONSE_CODE_KERNEL_CANCELED == VII_RESPONSE_CODE_KERNEL_BASE + 4

Cmds == 1..MaxCommands
\* the sequence numbers a caller assigns to its commands
Seqs == {1, 2}

NoGroup == [status |-> "none", ref_count |-> 0, freed |-> FALSE,
            fatal_errors |-> 0, mappings |-> 0, dmabufs |-> 0,
            eventfd |-> FALSE, fences |-> 0]
\* mapped tells that the mapping made by the call is in the tracker of the group
NoGroupIoctl == [op |-> "none", pc |-> "idle", ret |-> 0, gets |-> 0, puts |-> 0,
                 mapped |-> FALSE]
NoGroupRet == [op |-> "none", ret |-> 0, gets |-> 0, puts |-> 0, nogroup |-> FALSE]
NoCommand == [state |-> "none", seq |-> 0, responses |-> 0]
\* backlog counts the commands of the client that were accepted before the
\* behaviour starts and have no response yet
NoIkv == [credits |-> EDGETPU_NUM_VII_CREDITS, backlog |-> 0, resp_queue |-> <<>>]

NoLitebuf == [large |-> FALSE, kzalloc |-> 0, iremap_alloc |-> 0,
              iremap_free |-> 0, kfree |-> 0, callback |-> FALSE]

\* a thread may enter a group ioctl when it is in none
CanGroupCall(t) == /\ gioctl[t].pc = "idle"
                   /\ gcalls < MaxOps

\* the ioctl op that thread t calls returns ret in the same step; nogroup
\* tells that lock_check_group_member found the client in no group
GroupIoctlReturns(t, op, ret, nogroup) ==
    /\ gret' = [NoGroupRet EXCEPT !.op = op, !.ret = ret, !.nogroup = nogroup]
    /\ gcalls' = gcalls + 1
    /\ UNCHANGED gioctl

\* edgetpu_device_group_get(): one more reference on the group
edgetpu_device_group_get(g) == [g EXCEPT !.ref_count = @ + 1]

\* edgetpu_device_group_put(): drops a reference; the last one frees the group
edgetpu_device_group_put(g) ==
    [g EXCEPT !.ref_count = @ - 1, !.freed = (g.ref_count = 1)]

\* faulty variant: the status of the group is not looked at
device_group_map_ignores_status(g) == {0, -EFAULT, -ENOMEM}

\* the results edgetpu_device_group_map() can have: pinning the user pages
\* or the allocation of the mapping fails, or the group is disbanded
edgetpu_device_group_map(g) ==
    IF g.status = "disbanded" THEN {-EINVAL} ELSE {0, -EFAULT, -ENOMEM}

\* edgetpu_device_group_unmap() on the group: the address is one of a
\* mapping of the group, or is unknown
device_group_unmap(g) ==
    IF g.mappings > 0 THEN [g EXCEPT !.mappings = @ - 1] ELSE g

(***************************************************************************)
(* edgetpu_ioctl_create_group(): edgetpu_device_group_alloc() makes the    *)
(* group with the client as its leader and returns it with a reference,    *)
(* which the ioctl drops.                                                  *)
(***************************************************************************)
edgetpu_ioctl_create_group(t) ==
    /\ CanGroupCall(t)
    /\ client.group_lock = 0
    /\ \E copied \in BOOLEAN :
         IF ~copied
         THEN /\ GroupIoctlReturns(t, "create_group", -EFAULT, FALSE)
              /\ UNCHANGED <<client, group>>
         ELSE IF client.group \/ group.status # "none"
         THEN /\ GroupIoctlReturns(t, "create_group", -EINVAL, FALSE)
              /\ UNCHANGED <<client, group>>
         ELSE /\ client' = [client EXCEPT !.group = TRUE]
              /\ group' = edgetpu_device_group_put(edgetpu_device_group_get(
                              [NoGroup EXCEPT !.status = "waiting", !.ref_count = 1]))
              /\ GroupIoctlReturns(t, "create_group", 0, FALSE)
    /\ UNCHANGED vii_vars
    /\ UNCHANGED grp_others

(***************************************************************************)
(* edgetpu_ioctl_map_buffer().                                             *)
(***************************************************************************)
\* faulty variant: the group is used without a reference of the ioctl's own
map_buffer_borrows_group(g) == g

\* line 255: the reference that keeps the group while the lock is not held
map_buffer_gets_group(g) == edgetpu_device_group_get(g)

\* lines 247-255: copy_from_user, lock_check_group_member, the reference
edgetpu_ioctl_map_buffer(t) ==
    /\ CanGroupCall(t)
    /\ \E copied \in BOOLEAN :
         IF ~copied
         THEN /\ GroupIoctlReturns(t, "map_buffer", -EFAULT, FALSE)
              /\ UNCHANGED <<client, group>>
         ELSE /\ client.group_lock = 0
              /\ IF ~client.group
                 THEN /\ GroupIoctlReturns(t, "map_buffer", -EINVAL, TRUE)
                      /\ UNCHANGED <<client, group>>
                 ELSE /\ client' = [client EXCEPT !.group_lock = t]
                      /\ group' = map_buffer_gets_group(group)
                      /\ gioctl' = [gioctl EXCEPT ![t] =
                             [NoGroupIoctl EXCEPT !.op = "map_buffer", !.pc = "locked",
                                                  !.gets = 1]]
                      /\ gcalls' = gcalls + 1
                      /\ UNCHANGED gret
    /\ UNCHANGED vii_vars
    /\ UNCHANGED grp_others

\* line 262: UNLOCK(client)
map_buffer_unlock(t) ==
    /\ gioctl[t].op = "map_buffer" /\ gioctl[t].pc = "locked"
    /\ client' = [client EXCEPT !.group_lock = 0]
    /\ gioctl' = [gioctl EXCEPT ![t].pc = "map"]
    /\ UNCHANGED <<group, gret, gcalls, vii_vars>>
    /\ UNCHANGED grp_others

\* lines 263-265: edgetpu_device_group_map(), which pins the user pages
map_buffer_map(t) ==
    /\ gioctl[t].op = "map_buffer" /\ gioctl[t].pc = "map"
    /\ \E ret \in edgetpu_device_group_map(group) :
         IF ret # 0
         THEN /\ gioctl' = [gioctl EXCEPT ![t].pc = "out", ![t].ret = ret]
              /\ UNCHANGED group
         ELSE /\ gioctl' = [gioctl EXCEPT ![t].pc = "copy_to_user", ![t].mapped = TRUE]
              /\ group' = [group EXCEPT !.mappings = @ + 1]
    /\ UNCHANGED <<client, gret, gcalls, vii_vars>>
    /\ UNCHANGED grp_others

\* the mappings of the group, host buffers or dma-bufs, that calls still in
\* progress have made
InFlight(op) == {v \in Threads : gioctl[v].op = op /\ gioctl[v].mapped}

\* faulty variant: the mapping stays when its address could not be returned
map_failed_copy_keeps(n, mapped) == n

\* lines 268-269 (and 339): the unmap of ibuf.device_address takes the
\* mapping off the tracker when it is still there; n is the number of
\* mappings in the tracker
map_failed_copy_unmaps(n, mapped) == IF mapped THEN n - 1 ELSE n

\* lines 267-271: copy_to_user; on failure the mapping is undone
map_buffer_copy_to_user(t) ==
    /\ gioctl[t].op = "map_buffer" /\ gioctl[t].pc = "copy_to_user"
    /\ \E copied \in BOOLEAN :
         IF copied
         THEN /\ gioctl' = [gioctl EXCEPT ![t].pc = "out", ![t].ret = 0]
              /\ UNCHANGED group
         ELSE LET n == map_failed_copy_unmaps(group.mappings, gioctl[t].mapped)
              IN /\ gioctl' = [gioctl EXCEPT ![t].pc = "out", ![t].ret = -EFAULT,
                                             ![t].mapped = @ /\ n = group.mappings]
                 /\ group' = [group EXCEPT !.mappings = n]
    /\ UNCHANGED <<client, gret, gcalls, vii_vars>>
    /\ UNCHANGED grp_others

\* lines 273-277, the label out: the reference is dropped
map_buffer_out(t) ==
    /\ gioctl[t].op = "map_buffer" /\ gioctl[t].pc = "out"
    /\ group' = edgetpu_device_group_put(group)
    /\ gioctl' = [gioctl EXCEPT ![t] = NoGroupIoctl]
    /\ gret' = [NoGroupRet EXCEPT !.op = "map_buffer", !.ret = gioctl[t].ret,
                                  !.gets = gioctl[t].gets, !.puts = gioctl[t].puts + 1]
    /\ UNCHANGED <<client, gcalls, vii_vars>>
    /\ UNCHANGED grp_others

(***************************************************************************)
(* The ioctls that run under the group lock from lock_check_group_member   *)
(* to UNLOCK: one step each.  `copied' is the outcome of copy_from_user.   *)
(***************************************************************************)
\* faulty variant: the group is marked finalized before the handshake
finalize_marks_before_handshake(g) ==
    IF g.status = "waiting"
    THEN {[ret |-> 0, group |-> [g EXCEPT !.status = "finalized"]],
          [ret |-> -ETIMEDOUT, group |-> [g EXCEPT !.status = "finalized"]]}
    ELSE IF g.status = "finalized" THEN {[ret |-> 0, group |-> g]}
    ELSE {[ret |-> -EINVAL, group |-> g]}

\* what edgetpu_device_group_finalize() does to the group and returns: the
\* handshake with the firmware succeeds, or fails and leaves the group as is
edgetpu_device_group_finalize(g) ==
    IF g.status = "waiting"
    THEN {[ret |-> 0, group |-> [g EXCEPT !.status = "finalized"]],
          [ret |-> -ETIMEDOUT, group |-> g]}
    ELSE IF g.status = "finalized" THEN {[ret |-> 0, group |-> g]}
    ELSE {[ret |-> -EINVAL, group |-> g]}

\* edgetpu_ioctl_finalize_group()
edgetpu_ioctl_finalize_group(t) ==
    /\ CanGroupCall(t)
    /\ client.group_lock = 0
    /\ IF ~client.group
       THEN /\ GroupIoctlReturns(t, "finalize_group", 0, TRUE)
            /\ UNCHANGED group
       ELSE \E r \in edgetpu_device_group_finalize(group) :
              /\ group' = r.group
              /\ GroupIoctlReturns(t, "finalize_group", r.ret, FALSE)
    /\ UNCHANGED <<client, vii_vars>>
    /\ UNCHANGED grp_others

\* a call of op that lock_check_group_member lets through to `effects', a
\* set of [ret, group] the callee can produce
UnderGroupLock(t, op, has_arg, effects) ==
    /\ CanGroupCall(t)
    /\ \E copied \in (IF has_arg THEN BOOLEAN ELSE {TRUE}) :
         IF ~copied
         THEN /\ GroupIoctlReturns(t, op, -EFAULT, FALSE)
              /\ UNCHANGED group
         ELSE /\ client.group_lock = 0
              /\ IF ~client.group
                 THEN /\ GroupIoctlReturns(t, op, -EINVAL, TRUE)
                      /\ UNCHANGED group
                 ELSE \E r \in effects :
                        /\ group' = r.group
                        /\ GroupIoctlReturns(t, op, r.ret, FALSE)
    /\ UNCHANGED <<client, vii_vars>>
    /\ UNCHANGED grp_others

\* an unmap ioctl names the address of a mapping that a map call of thread
\* v, still in progress, has made: the mapping is taken off the tracker
UnmapsInFlight(t, op, v, g) ==
    /\ CanGroupCall(t)
    /\ client.group_lock = 0
    /\ client.group
    /\ gioctl[v].mapped
    /\ group' = g
    /\ gioctl' = [gioctl EXCEPT ![v].mapped = FALSE]
    /\ gret' = [NoGroupRet EXCEPT !.op = op, !.ret = 0]
    /\ gcalls' = gcalls + 1
    /\ UNCHANGED <<client, vii_vars>>
    /\ UNCHANGED grp_others

\* edgetpu_ioctl_unmap_buffer(): the address is unknown, or that of a mapping
\* of a call that has returned, or that of a mapping of a call in progress
edgetpu_ioctl_unmap_buffer(t) ==
    \/ UnderGroupLock(t, "unmap_buffer", TRUE,
          {[ret |-> -EINVAL, group |-> group]} \cup
          (IF group.mappings > Cardinality(InFlight("map_buffer"))
           THEN {[ret |-> 0, group |-> device_group_unmap(group)]} ELSE {}))
    \/ \E v \in InFlight("map_buffer") :
          UnmapsInFlight(t, "unmap_buffer", v, device_group_unmap(group))

\* edgetpu_ioctl_sync_buffer()
edgetpu_ioctl_sync_buffer(t) ==
    UnderGroupLock(t, "sync_buffer", TRUE,
        {[ret |-> -EINVAL, group |-> group]} \cup
        (IF group.mappings > 0 THEN {[ret |-> 0, group |-> group]} ELSE {}))

\* edgetpu_ioctl_unmap_dmabuf()
edgetpu_ioctl_unmap_dmabuf(t) ==
    \/ UnderGroupLock(t, "unmap_dmabuf", TRUE,
          {[ret |-> -EINVAL, group |-> group]} \cup
          (IF group.dmabufs > Cardinality(InFlight("map_dmabuf"))
           THEN {[ret |-> 0, group |-> [group EXCEPT !.dmabufs = @ - 1]]} ELSE {}))
    \/ \E v \in InFlight("map_dmabuf") :
          UnmapsInFlight(t, "unmap_dmabuf", v, [group EXCEPT !.dmabufs = @ - 1])

\* edgetpu_ioctl_set_eventfd()
edgetpu_ioctl_set_eventfd(t) ==
    UnderGroupLock(t, "set_eventfd", TRUE,
        {[ret |-> -EINVAL, group |-> group],
         [ret |-> 0, group |-> [group EXCEPT !.eventfd = TRUE]]})

\* edgetpu_ioctl_unset_eventfd()
edgetpu_ioctl_unset_eventfd(t) ==
    UnderGroupLock(t, "unset_eventfd", FALSE,
        {[ret |-> 0, group |-> [group EXCEPT !.eventfd = FALSE]]})

\* edgetpu_ioctl_sync_fence_create(): the copy_to_user of the new fence's
\* descriptor may fail after the fence was made
edgetpu_ioctl_sync_fence_create(t) ==
    UnderGroupLock(t, "sync_fence_create", TRUE,
        {[ret |-> -ENOMEM, group |-> group],
         [ret |-> 0, group |-> [group EXCEPT !.fences = @ + 1]],
         [ret |-> -EFAULT, group |-> [group EXCEPT !.fences = @ + 1]]})

(***************************************************************************)
(* edgetpu_ioctl_map_dmabuf(): the reference is taken and the buffer       *)
(* mapped under the lock; copy_to_user and the put follow without it.      *)
(***************************************************************************)
edgetpu_ioctl_map_dmabuf(t) ==
    /\ CanGroupCall(t)
    /\ \E copied \in BOOLEAN :
         IF ~copied
         THEN /\ GroupIoctlReturns(t, "map_dmabuf", -EFAULT, FALSE)
              /\ UNCHANGED group
         ELSE /\ client.group_lock = 0
              /\ IF ~client.group
                 THEN /\ GroupIoctlReturns(t, "map_dmabuf", -EINVAL, TRUE)
                      /\ UNCHANGED group
                 ELSE \E ret \in {0, -EINVAL} :
                        /\ group' = [edgetpu_device_group_get(group) EXCEPT
                                         !.dmabufs = IF ret = 0 THEN @ + 1 ELSE @]
                        /\ gioctl' = [gioctl EXCEPT ![t] =
                               [NoGroupIoctl EXCEPT !.op = "map_dmabuf", !.gets = 1,
                                    !.ret = ret, !.mapped = (ret = 0),
                                    !.pc = IF ret = 0 THEN "copy_to_user" ELSE "out"]]
                        /\ gcalls' = gcalls + 1
                        /\ UNCHANGED gret
    /\ UNCHANGED <<client, vii_vars>>
    /\ UNCHANGED grp_others

\* lines 338-341: copy_to_user; on failure the mapping is undone
map_dmabuf_copy_to_user(t) ==
    /\ gioctl[t].op = "map_dmabuf" /\ gioctl[t].pc = "copy_to_user"
    /\ \E copied \in BOOLEAN :
         IF copied
         THEN /\ gioctl' = [gioctl EXCEPT ![t].pc = "out", ![t].ret = 0]
              /\ UNCHANGED group
         ELSE LET n == map_failed_copy_unmaps(group.dmabufs, gioctl[t].mapped)
              IN /\ gioctl' = [gioctl EXCEPT ![t].pc = "out", ![t].ret = -EFAULT,
                                             ![t].mapped = @ /\ n = group.dmabufs]
                 /\ group' = [group EXCEPT !.dmabufs = n]
    /\ UNCHANGED <<client, gret, gcalls, vii_vars>>
    /\ UNCHANGED grp_others

\* lines 343-347, the label out
map_dmabuf_out(t) ==
    /\ gioctl[t].op = "map_dmabuf" /\ gioctl[t].pc = "out"
    /\ group' = edgetpu_device_group_put(group)
    /\ gioctl' = [gioctl EXCEPT ![t] = NoGroupIoctl]
    /\ gret' = [NoGroupRet EXCEPT !.op = "map_dmabuf", !.ret = gioctl[t].ret,
                                  !.gets = gioctl[t].gets, !.puts = gioctl[t].puts + 1]
    /\ UNCHANGED <<client, gcalls, vii_vars>>
    /\ UNCHANGED grp_others
(***************************************************************************)
(* The VII commands of the group.  A command is waiting for its in-fence   *)
(* ("fence"), in the mailbox ("sent") or has its response ("done"); a      *)
(* response is kept in the response queue until the client fetches it.     *)
(* A credit is taken when a command is accepted and given back when its    *)
(* response, from the firmware or made by the kernel, arrives.             *)
(***************************************************************************)
Outstanding(c) == command[c].state \in {"fence", "sent"}

\* the next command record to use, 0 when all were used
NextCommand ==
    IF \E c \in Cmds : command[c].state = "none"
    THEN CHOOSE c \in Cmds : /\ command[c].state = "none"
                             /\ \A d \in Cmds : command[d].state = "none" => c <= d
    ELSE 0

\* bitwise or of two fatal-error masks of two bits
BitOr(a, b) ==
    (IF a % 2 = 1 \/ b % 2 = 1 THEN 1 ELSE 0)
    + 2 * (IF (a \div 2) % 2 = 1 \/ (b \div 2) % 2 = 1 THEN 1 ELSE 0)

\* the response to command c with the given code and retval arrives
ikv_response(cmds, k, c, code, retval) ==
    [command |-> [cmds EXCEPT ![c].state = "done", ![c].responses = @ + 1],
     ikv |-> [k EXCEPT !.credits = @ + 1,
                       !.resp_queue = Append(@, [cmd |-> c, seq |-> cmds[c].seq,
                                                 code |-> code, retval |-> retval])]]

\* every outstanding command is canceled, its response carrying `bits'
RECURSIVE ikv_cancel_commands(_, _, _, _)
ikv_cancel_commands(cmds, k, bits, c) ==
    IF c > MaxCommands
    THEN [command |-> cmds,
          ikv |-> [k EXCEPT !.credits = @ + k.backlog, !.backlog = 0,
                            !.resp_queue = @ \o [i \in 1..k.backlog |->
                                [cmd |-> 0, seq |-> 0,
                                 code |-> VII_RESPONSE_CODE_KERNEL_CANCELED,
                                 retval |-> bits]]]]
    ELSE IF cmds[c].state \in {"fence", "sent"}
    THEN LET r == ikv_response(cmds, k, c, VII_RESPONSE_CODE_KERNEL_CANCELED, bits)
         IN ikv_cancel_commands(r.command, r.ikv, bits, c + 1)
    ELSE ikv_cancel_commands(cmds, k, bits, c + 1)

\* edgetpu_device_group_send_vii_command(): the results it can have for a
\* command with sequence number seq, with or without an in-fence.  The group
\* must be finalized and the client have a credit left; the mailbox may be
\* full.  The command is kept in record c (none is left when c is 0).
edgetpu_device_group_send_vii_command(g, cmds, k, c, seq, in_fence) ==
    IF g.status # "finalized"
    THEN {[ret |-> -EINVAL, command |-> cmds, ikv |-> k]}
    ELSE IF k.credits = 0
    THEN {[ret |-> -EBUSY, command |-> cmds, ikv |-> k]}
    ELSE {[ret |-> -EBUSY, command |-> cmds, ikv |-> k]} \cup
         (IF c = 0 THEN {}
          ELSE {[ret |-> 0,
                 command |-> [cmds EXCEPT
                                 ![c].state = IF in_fence THEN "fence" ELSE "sent",
                                 ![c].seq = seq],
                 ikv |-> [k EXCEPT !.credits = @ - 1]]})

\* faulty variant: the result of the send is dropped
vii_command_returns_zero(ret) == 0

\* lines 729-740: the ioctl returns what the send returned
vii_command_returns(ret) == ret

\* edgetpu_ioctl_vii_command(): `fences' is the result of
\* get_fence_array_from_user for the in-fences and the out-fences
edgetpu_ioctl_vii_command(t) ==
    /\ CanGroupCall(t)
    /\ \E copied \in BOOLEAN :
         IF ~copied
         THEN /\ GroupIoctlReturns(t, "vii_command", -EFAULT, FALSE)
              /\ UNCHANGED <<command, ikv>>
         ELSE IF ~etdev.use_ikv \/ etdev.vii_format # "flatbuffer"
         THEN /\ GroupIoctlReturns(t, "vii_command", -EOPNOTSUPP, ~client.group)
              /\ UNCHANGED <<command, ikv>>
         ELSE /\ client.group_lock = 0
              /\ IF ~client.group
                 THEN /\ GroupIoctlReturns(t, "vii_command", -EINVAL, TRUE)
                      /\ UNCHANGED <<command, ikv>>
                 ELSE \E fences \in {0, -EINVAL} :
                        IF fences # 0
                        THEN /\ GroupIoctlReturns(t, "vii_command", fences, FALSE)
                             /\ UNCHANGED <<command, ikv>>
                        ELSE \E seq \in Seqs, in_fence \in BOOLEAN :
                               \E r \in edgetpu_device_group_send_vii_command(
                                         group, command, ikv, NextCommand, seq, in_fence) :
                                 /\ command' = r.command
                                 /\ ikv' = r.ikv
                                 /\ GroupIoctlReturns(t, "vii_command",
                                                      vii_command_returns(r.ret), FALSE)
    /\ UNCHANGED <<client, group, etdev>>
    /\ UNCHANGED grp_others

\* edgetpu_ioctl_vii_response(): edgetpu_device_group_get_vii_response()
\* takes the first response off the queue, and copy_to_user hands it over
edgetpu_ioctl_vii_response(t) ==
    /\ CanGroupCall(t)
    /\ IF ~etdev.use_ikv \/ etdev.vii_format # "flatbuffer"
       THEN /\ GroupIoctlReturns(t, "vii_response", -EOPNOTSUPP, ~client.group)
            /\ UNCHANGED ikv
       ELSE /\ client.group_lock = 0
            /\ IF ~client.group
               THEN /\ GroupIoctlReturns(t, "vii_response", -EINVAL, TRUE)
                    /\ UNCHANGED ikv
               ELSE IF ikv.resp_queue = <<>>
               THEN /\ GroupIoctlReturns(t, "vii_response", -ENOENT, FALSE)
                    /\ UNCHANGED ikv
               ELSE \E copied \in BOOLEAN :
                      /\ ikv' = [ikv EXCEPT !.resp_queue = Tail(@)]
                      /\ GroupIoctlReturns(t, "vii_response",
                                           IF copied THEN 0 ELSE -EFAULT, FALSE)
    /\ UNCHANGED <<client, group, etdev, command>>
    /\ UNCHANGED grp_others

(***************************************************************************)
(* edgetpu_ioctl_vii_litebuf_command(): the whole ioctl runs under the     *)
(* group lock.  A payload above VII_CMD_PAYLOAD_SIZE_BYTES is staged in a  *)
(* struct litebuf_command_iremap_buffer (kzalloc) and its memory           *)
(* (edgetpu_iremap_alloc).  `fail' is the step of the ioctl that fails.    *)
(***************************************************************************)
LitebufSteps ==
    {"ibuf", "kzalloc", "edgetpu_iremap_alloc", "payload", "in_fence_array",
     "out_fence_array", "in_iif_fences", "out_iif_fences", "none"}

\* the labels of the ioctl's exit path, in the order they are run through
LitebufLabels ==
    <<"after_send", "out_free_in_iif_fences", "out_free_out_fence_array",
      "out_free_in_fence_array", "out_free_large_command_iremap",
      "out_free_large_command_buffer", "out_unlock">>

\* the label is run when the exit path is entered at label `from'
LitebufRuns(from, label) ==
    \E i, j \in DOMAIN LitebufLabels :
        /\ LitebufLabels[i] = from /\ LitebufLabels[j] = label /\ i <= j

\* the goto taken when step `fail' fails, and the value of ret then
litebuf_goto(fail, large) ==
    CASE fail = "kzalloc" -> [label |-> "out_unlock", ret |-> -ENOMEM]
      [] fail = "edgetpu_iremap_alloc" ->
             [label |-> "out_free_large_command_buffer", ret |-> -ENOMEM]
      [] fail = "payload" ->
             [label |-> IF large THEN "out_free_large_command_iremap"
                                 ELSE "out_unlock", ret |-> -EFAULT]
      [] fail = "in_fence_array" -> [label |-> "out_unlock", ret |-> -EINVAL]
      [] fail = "out_fence_array" ->
             [label |-> "out_free_in_fence_array", ret |-> -EINVAL]
      [] fail = "in_iif_fences" ->
             [label |-> "out_free_out_fence_array", ret |-> -ENOMEM]
      [] fail = "out_iif_fences" ->
             [label |-> "out_free_in_iif_fences", ret |-> -ENOMEM]

\* what was allocated when step `fail' is reached and fails
litebuf_allocated(fail, large) ==
    [NoLitebuf EXCEPT
        !.large = large,
        !.kzalloc = IF large /\ fail # "kzalloc" THEN 1 ELSE 0,
        !.iremap_alloc = IF large /\ fail \notin {"kzalloc", "edgetpu_iremap_alloc"}
                         THEN 1 ELSE 0]

\* the exit path entered at `label' with ret: the two frees are made when
\* ret is not 0 and iremap_buffer is not NULL
litebuf_out(lb, label, ret) ==
    [lb EXCEPT
        !.iremap_free = IF /\ LitebufRuns(label, "out_free_large_command_iremap")
                           /\ ret # 0 /\ lb.kzalloc = 1
                        THEN 1 ELSE 0,
        !.kfree = IF /\ LitebufRuns(label, "out_free_large_command_buffer")
                     /\ ret # 0 /\ lb.kzalloc = 1
                  THEN 1 ELSE 0,
        !.callback = lb.large /\ ret = 0]

edgetpu_ioctl_vii_litebuf_command(t) ==
    /\ CanGroupCall(t)
    /\ \E fail \in LitebufSteps, large \in BOOLEAN :
         /\ fail \in {"kzalloc", "edgetpu_iremap_alloc"} => large
         /\ IF fail = "ibuf"
            THEN /\ GroupIoctlReturns(t, "vii_litebuf_command", -EFAULT, FALSE)
                 /\ litebuf' = NoLitebuf
                 /\ UNCHANGED <<command, ikv>>
            ELSE IF ~etdev.use_ikv \/ etdev.vii_format # "litebuf"
            THEN /\ GroupIoctlReturns(t, "vii_litebuf_command", -EOPNOTSUPP,
                                      ~client.group)
                 /\ litebuf' = NoLitebuf
                 /\ UNCHANGED <<command, ikv>>
            ELSE /\ client.group_lock = 0
                 /\ IF ~client.group
                    THEN /\ GroupIoctlReturns(t, "vii_litebuf_command", -EINVAL, TRUE)
                         /\ litebuf' = NoLitebuf
                         /\ UNCHANGED <<command, ikv>>
                    ELSE IF fail # "none"
                    THEN LET out == litebuf_goto(fail, large)
                         IN /\ litebuf' = litebuf_out(litebuf_allocated(fail, large),
                                                      out.label, out.ret)
                            /\ GroupIoctlReturns(t, "vii_litebuf_command", out.ret,
                                                 FALSE)
                            /\ UNCHANGED <<command, ikv>>
                    ELSE \E seq \in Seqs, in_fence \in BOOLEAN :
                           \E r \in edgetpu_device_group_send_vii_command(
                                     group, command, ikv, NextCommand, seq, in_fence) :
                             /\ command' = r.command
                             /\ ikv' = r.ikv
                             /\ litebuf' = litebuf_out(litebuf_allocated(fail, large),
                                                       "after_send", r.ret)
                             /\ GroupIoctlReturns(t, "vii_litebuf_command", r.ret,
                                                  FALSE)
    /\ UNCHANGED <<client, group, etdev>>
    /\ UNCHANGED lite_others

(***************************************************************************)
(* The firmware, the in-fences and the timers of the commands.             *)
(***************************************************************************)
\* the in-fence of command c is signaled without error: the command is put
\* in the mailbox, or fails to be
ikv_fence_signaled(c) ==
    /\ command[c].state = "fence"
    /\ \/ /\ command' = [command EXCEPT ![c].state = "sent"]
          /\ UNCHANGED ikv
       \/ LET r == ikv_response(command, ikv, c,
                                VII_RESPONSE_CODE_KERNEL_ENQUEUE_FAILED, -EBUSY)
          IN command' = r.command /\ ikv' = r.ikv
    /\ UNCHANGED <<client, group, etdev, gioctl, gret, gcalls>>
    /\ UNCHANGED grp_others

\* the in-fence of command c is signaled with an error, or the wait for it
\* times out: the command is never sent
ikv_fence_failed(c) ==
    /\ command[c].state = "fence"
    /\ \E code \in {VII_RESPONSE_CODE_KERNEL_FENCE_ERROR,
                    VII_RESPONSE_CODE_KERNEL_FENCE_TIMEOUT} :
         LET r == ikv_response(command, ikv, c, code,
                     IF code = VII_RESPONSE_CODE_KERNEL_FENCE_ERROR THEN -EIO ELSE 0)
         IN command' = r.command /\ ikv' = r.ikv
    /\ UNCHANGED <<client, group, etdev, gioctl, gret, gcalls>>
    /\ UNCHANGED grp_others

\* the firmware answers command c, or the command times out
ikv_response_arrives(c) ==
    /\ command[c].state = "sent"
    /\ \E code \in {0, VII_RESPONSE_CODE_KERNEL_CMD_TIMEOUT} :
         LET r == ikv_response(command, ikv, c, code, 0)
         IN command' = r.command /\ ikv' = r.ikv
    /\ UNCHANGED <<client, group, etdev, gioctl, gret, gcalls>>
    /\ UNCHANGED grp_others

\* the firmware answers one of the earlier commands
ikv_backlog_response ==
    /\ ikv.backlog > EDGETPU_NUM_VII_CREDITS - MaxBacklog
    /\ ikv' = [ikv EXCEPT !.credits = @ + 1, !.backlog = @ - 1,
                          !.resp_queue = Append(@, [cmd |-> 0, seq |-> 0,
                                                    code |-> 0, retval |-> 0])]
    /\ UNCHANGED <<client, group, etdev, command, gioctl, gret, gcalls>>
    /\ UNCHANGED grp_others

\* edgetpu_fatal_error_notify(): a finalized group becomes errored and its
\* outstanding commands are canceled with the bits of the fault
edgetpu_fatal_error_notify(bits) ==
    IF group.status = "finalized"
    THEN LET r == ikv_cancel_commands(command, ikv, bits, 1)
         IN /\ group' = [group EXCEPT !.status = "errored",
                                      !.fatal_errors = BitOr(@, bits)]
            /\ command' = r.command
            /\ ikv' = r.ikv
    ELSE /\ group' = [group EXCEPT !.fatal_errors =
                          IF group.status = "errored" THEN BitOr(@, bits) ELSE @]
         /\ UNCHANGED <<command, ikv>>

\* faulty variant: the crash is reported as a watchdog timeout
firmware_crash_as_watchdog == EDGETPU_ERROR_WATCHDOG_TIMEOUT

\* line 776: the fatal error a firmware crash is reported as
firmware_crash_error == EDGETPU_ERROR_FW_CRASH

\* edgetpu_handle_firmware_crash()
edgetpu_handle_firmware_crash ==
    /\ etdev.firmware_crash_count < MaxFaults
    /\ \E crash_type \in {"GCIP_FW_CRASH_UNRECOVERABLE_FAULT", "other"} :
         IF crash_type = "GCIP_FW_CRASH_UNRECOVERABLE_FAULT"
         THEN /\ etdev' = [etdev EXCEPT !.firmware_crash_count = @ + 1]
              /\ edgetpu_fatal_error_notify(firmware_crash_error)
         ELSE UNCHANGED <<etdev, group, command, ikv>>
    /\ UNCHANGED <<client, gioctl, gret, gcalls>>
    /\ UNCHANGED grp_others

\* the watchdog of the firmware fires
edgetpu_watchdog_timeout ==
    /\ edgetpu_fatal_error_notify(EDGETPU_ERROR_WATCHDOG_TIMEOUT)
    /\ UNCHANGED <<client, etdev, gioctl, gret, gcalls>>
    /\ UNCHANGED grp_others

(***************************************************************************)
(* edgetpu_device_group_leave(): the client leaves its group under its     *)
(* group_lock; the group of the last member is disbanded: its mappings are *)
(* released, its outstanding commands canceled, and it loses the reference *)
(* its member held.                                                        *)
(***************************************************************************)
edgetpu_device_group_leave ==
    /\ client.group_lock = 0
    /\ client.group
    /\ client' = [client EXCEPT !.group = FALSE]
    /\ group' = edgetpu_device_group_put(
                    [group EXCEPT !.status = "disbanded", !.mappings = 0,
                                  !.dmabufs = 0])
    /\ LET r == ikv_cancel_commands(command, ikv, group.fatal_errors, 1)
       IN command' = r.command /\ ikv' = r.ikv
    /\ gioctl' = [t \in Threads |-> [gioctl[t] EXCEPT !.mapped = FALSE]]
    /\ UNCHANGED <<etdev, gret, gcalls>>
    /\ UNCHANGED grp_others

GrpNext ==
    \/ \E t \in Threads :
          \/ edgetpu_ioctl_create_group(t)
          \/ edgetpu_ioctl_finalize_group(t)
          \/ edgetpu_ioctl_map_buffer(t)
          \/ map_buffer_unlock(t)
          \/ map_buffer_map(t)
          \/ map_buffer_copy_to_user(t)
          \/ map_buffer_out(t)
          \/ edgetpu_ioctl_unmap_buffer(t)
          \/ edgetpu_ioctl_sync_buffer(t)
          \/ edgetpu_ioctl_map_dmabuf(t)
          \/ map_dmabuf_copy_to_user(t)
          \/ map_dmabuf_out(t)
          \/ edgetpu_ioctl_unmap_dmabuf(t)
          \/ edgetpu_ioctl_set_eventfd(t)
          \/ edgetpu_ioctl_unset_eventfd(t)
          \/ edgetpu_ioctl_sync_fence_create(t)
          \/ edgetpu_ioctl_vii_command(t)
          \/ edgetpu_ioctl_vii_response(t)
    \/ edgetpu_device_group_leave

ViiNext ==
    \/ \E t \in Threads :
          \/ edgetpu_ioctl_finalize_group(t)
          \/ edgetpu_ioctl_vii_command(t)
          \/ edgetpu_ioctl_vii_response(t)
    \/ \E c \in Cmds :
          \/ ikv_fence_signaled(c)
          \/ ikv_fence_failed(c)
          \/ ikv_response_arrives(c)
    \/ edgetpu_handle_firmware_crash
    \/ edgetpu_watchdog_timeout

(***************************************************************************)
(* The specifications: one for each part of the driver, the other parts    *)
(* being left idle.                                                        *)
(***************************************************************************)
\* no client on the device
IkfOnly ==
    /\ client = [group |-> FALSE, group_lock |-> 0, count |-> 1, freed |-> FALSE,
                 dev_inaccessible |-> FALSE]
    /\ wakelock = [req_count |-> 0, event_count |-> 0, lock |-> 0]
    /\ mailbox_attached = FALSE
    /\ pm_count = 0
    /\ ioctl = [t \in Threads |-> NoIoctl]
    /\ hist = NoHist
    /\ remove = NoRemove
    /\ access = NoAccess
    /\ clients = NoClients
    /\ vma = NoVma

\* an awaiter that is never used
WlOnly ==
    /\ awaiter = [threads |-> <<>>, stop_threads |-> FALSE, signaled_cb |-> FALSE]
    /\ thread = [w \in Waiters |-> NoThread]
    /\ task = [w \in Waiters |-> NoTask]
    /\ call = [w \in Waiters |-> NoCall]
    /\ fence = [f \in Fences |-> [signaled |-> FALSE, refs |-> 1, sw_signaling |-> FALSE]]
    /\ exit = [pc |-> "idle", cur |-> NULL]
    /\ cb_calls = [w \in Waiters |-> <<>>]

\* no tracker of mappings in use
NoTracker ==
    /\ mappings = [rb |-> <<>>, count |-> 0, lock |-> FALSE]
    /\ map = [m \in Maps |-> NoMap]
    /\ mapop = NoMapOp
    /\ trk = [t \in Threads |-> NoTrk]

\* no group on the device
NoGroups ==
    /\ group = NoGroup
    /\ etdev = [use_ikv |-> TRUE, vii_format |-> "flatbuffer",
                 firmware_crash_count |-> 0]
    /\ gioctl = [t \in Threads |-> NoGroupIoctl]
    /\ gret = NoGroupRet
    /\ gcalls = 0
    /\ command = [c \in Cmds |-> NoCommand]
    /\ ikv = NoIkv
    /\ litebuf = NoLitebuf

\* a client in no group, on a device with or without the in-kernel VII
GrpOnly ==
    /\ client = [group |-> FALSE, group_lock |-> 0, count |-> 1, freed |-> FALSE,
                 dev_inaccessible |-> FALSE]
    /\ group = NoGroup
    /\ etdev \in {[use_ikv |-> u, vii_format |-> "flatbuffer",
                   firmware_crash_count |-> 0] : u \in BOOLEAN}
    /\ gioctl = [t \in Threads |-> NoGroupIoctl]
    /\ gret = NoGroupRet
    /\ gcalls = 0
    /\ command = [c \in Cmds |-> NoCommand]
    /\ ikv = NoIkv
    /\ litebuf = NoLitebuf

\* the only member of a group that is waiting or finalized, on a device with
\* the in-kernel VII
ViiOnly ==
    /\ client = [group |-> TRUE, group_lock |-> 0, count |-> 1, freed |-> FALSE,
                 dev_inaccessible |-> FALSE]
    /\ group \in {[NoGroup EXCEPT !.status = s, !.ref_count = 1] :
                      s \in {"waiting", "finalized"}}
    /\ etdev = [use_ikv |-> TRUE, vii_format |-> "flatbuffer",
                 firmware_crash_count |-> 0]
    /\ gioctl = [t \in Threads |-> NoGroupIoctl]
    /\ gret = NoGroupRet
    /\ gcalls = 0
    /\ command = [c \in Cmds |-> NoCommand]
    /\ ikv = NoIkv
    /\ litebuf = NoLitebuf

\* the wakelock of the client is not used
NoWakelock ==
    /\ wakelock = [req_count |-> 0, event_count |-> 0, lock |-> 0]
    /\ mailbox_attached = FALSE
    /\ pm_count = 0
    /\ ioctl = [t \in Threads |-> NoIoctl]
    /\ hist = NoHist
    /\ remove = NoRemove
    /\ access = NoAccess
    /\ clients = NoClients
    /\ vma = NoVma

IkfInit == gcip_ikf_awaiter_init /\ IkfOnly /\ NoTracker /\ NoGroups
WlInit == edgetpu_client_add /\ WlOnly /\ NoTracker /\ NoGroups
MapInit == edgetpu_mapping_init /\ IkfOnly /\ WlOnly /\ NoGroups
GrpInit == GrpOnly /\ NoWakelock /\ WlOnly /\ NoTracker
ViiInit == ViiOnly /\ NoWakelock /\ WlOnly /\ NoTracker

IkfSpec == IkfInit /\ [][IkfNext]_vars
WlSpec == WlInit /\ [][WlNext]_vars

\* a client that holds no request, or so many that the count can grow by one
\* only; pm_count counts the power references from this state on (the
\* references behind the requests already held are not in it)
AcqInit ==
    /\ WlOnly /\ NoTracker /\ NoGroups
    /\ \E n \in {0, INT_MAX - 1} :
         /\ client \in {[group |-> g, group_lock |-> 0, count |-> 1, freed |-> FALSE,
                          dev_inaccessible |-> FALSE] : g \in BOOLEAN}
         /\ wakelock = [req_count |-> n, event_count |-> 0, lock |-> 0]
         /\ mailbox_attached = (n > 0 /\ client.group)
         /\ pm_count = 0
    /\ ioctl = [t \in Threads |-> NoIoctl]
    /\ hist = NoHist
    /\ remove = NoRemove
    /\ access = NoAccess
    /\ clients = NoClients
    /\ vma = NoVma
AcqSpec == AcqInit /\ [][WlNext]_vars
RmSpec == WlInit /\ [][RmNext]_vars
ShowSpec == WlInit /\ [][ShowNext]_vars
LockSpec == WlInit /\ [][LockNext]_vars
MapSpec == MapInit /\ [][MapNext]_vars
TrkSpec == MapInit /\ [][TrkNext]_vars
GrpSpec == GrpInit /\ [][GrpNext]_vars
ViiSpec == ViiInit /\ [][ViiNext]_vars
\* the waits for the in-fences end, by a signal or by their timeout, and the
\* firmware answers a command or the command times out
ViiFairness ==
    \A c \in Cmds : /\ WF_vars(ikv_fence_signaled(c) \/ ikv_fence_failed(c))
                    /\ WF_vars(ikv_response_arrives(c))
ViiFairSpec == ViiSpec /\ ViiFairness
\* the whole life of a group: the ioctls of its client, its commands, the
\* faults of the device and the departure of the client
LifeNext == GrpNext \/ ViiNext

\* the only member of a finalized group, with all or nearly all of its
\* credits taken by commands that have no response yet
CreditOnly ==
    /\ client = [group |-> TRUE, group_lock |-> 0, count |-> 1, freed |-> FALSE,
                 dev_inaccessible |-> FALSE]
    /\ group = [NoGroup EXCEPT !.status = "finalized", !.ref_count = 1]
    /\ etdev = [use_ikv |-> TRUE, vii_format |-> "flatbuffer",
                 firmware_crash_count |-> 0]
    /\ gioctl = [t \in Threads |-> NoGroupIoctl]
    /\ gret = NoGroupRet
    /\ gcalls = 0
    /\ command = [c \in Cmds |-> NoCommand]
    /\ \E n \in (EDGETPU_NUM_VII_CREDITS - MaxBacklog)..EDGETPU_NUM_VII_CREDITS :
         ikv = [NoIkv EXCEPT !.credits = EDGETPU_NUM_VII_CREDITS - n, !.backlog = n]
    /\ litebuf = NoLitebuf
CreditInit == CreditOnly /\ NoWakelock /\ WlOnly /\ NoTracker
CreditNext ==
    \/ \E t \in Threads :
          \/ edgetpu_ioctl_vii_command(t)
    \/ \E c \in Cmds :
          \/ ikv_fence_signaled(c)
          \/ ikv_fence_failed(c)
          \/ ikv_response_arrives(c)
    \/ ikv_backlog_response
    \/ edgetpu_handle_firmware_crash
CreditSpec == CreditInit /\ [][CreditNext]_vars

\* the only member of a finalized group, on a device whose VII commands are
\* litebufs
LiteOnly ==
    /\ client = [group |-> TRUE, group_lock |-> 0, count |-> 1, freed |-> FALSE,
                 dev_inaccessible |-> FALSE]
    /\ group = [NoGroup EXCEPT !.status = "finalized", !.ref_count = 1]
    /\ etdev = [use_ikv |-> TRUE, vii_format |-> "litebuf",
                firmware_crash_count |-> 0]
    /\ gioctl = [t \in Threads |-> NoGroupIoctl]
    /\ gret = NoGroupRet
    /\ gcalls = 0
    /\ command = [c \in Cmds |-> NoCommand]
    /\ ikv = NoIkv
    /\ litebuf = NoLitebuf
LiteInit == LiteOnly /\ NoWakelock /\ WlOnly /\ NoTracker
LiteNext ==
    \/ \E t \in Threads : edgetpu_ioctl_vii_litebuf_command(t)
    \/ \E c \in Cmds :
          \/ ikv_fence_signaled(c)
          \/ ikv_fence_failed(c)
          \/ ikv_response_arrives(c)
    \/ edgetpu_handle_firmware_crash
LiteSpec == LiteInit /\ [][LiteNext]_vars

\* a new client on a device with or without the in-kernel VII
AccInit ==
    /\ edgetpu_client_add /\ WlOnly /\ NoTracker
    /\ group = NoGroup
    /\ etdev \in {[use_ikv |-> u, vii_format |-> "flatbuffer",
                   firmware_crash_count |-> 0] : u \in BOOLEAN}
    /\ gioctl = [t \in Threads |-> NoGroupIoctl]
    /\ gret = NoGroupRet
    /\ gcalls = 0
    /\ command = [c \in Cmds |-> NoCommand]
    /\ ikv = NoIkv
    /\ litebuf = NoLitebuf
AccSpec == AccInit /\ [][AccNext]_vars
VmaSpec == AccInit /\ [][VmaNext]_vars
LifeSpec == GrpInit /\ [][LifeNext]_vars
\* the thread that runs edgetpu_mapping_clear keeps being scheduled
MapFairSpec == MapSpec /\ WF_vars(edgetpu_mapping_clear_release)
                       /\ WF_vars(edgetpu_mapping_clear_unlock)


(***************************************************************************)
(* Scheduling: every waiter thread and the thread running exit keep being  *)
(* scheduled; nothing obliges a caller to start a wait or exit, a fence to *)
(* be signaled or a timeout to be finite.                                  *)
(***************************************************************************)
IkfFairness ==
    /\ \A w \in Waiters : WF_vars(gcip_ikf_wait_timeout_register(w))
    /\ \A w \in Waiters : WF_vars(kthread_start(w))
    /\ \A w \in Waiters : WF_vars(gcip_ikf_thread_func_wait(w))
    /\ \A w \in Waiters : WF_vars(gcip_ikf_thread_func_signaled(w))
    /\ \A w \in Waiters : WF_vars(gcip_ikf_thread_func_out(w))
    /\ \A w \in Waiters : WF_vars(gcip_ikf_thread_func_return(w))
    /\ WF_vars(gcip_ikf_awaiter_exit_kthread_stop)
    /\ WF_vars(gcip_ikf_awaiter_exit_reap)
    /\ WF_vars(gcip_ikf_awaiter_exit_return)

IkfFairSpec == IkfSpec /\ IkfFairness

(***************************************************************************)
(* Vocabulary of the claims about the fence awaiter.                       *)
(***************************************************************************)
\* the w-th gcip_ikf_wait_timeout call returned 0
Accepted(w) == call[w].pc = "ret" /\ call[w].ret = 0

\* the callback invocations of wait w made by `who'
CallsBy(w, who) == SelectSeq(cb_calls[w], LAMBDA c : c.by = who)

\* waiter w went to `out' with the stop flag set: it left itself in the list
LeftToExit(w) == Accepted(w) /\ task[w].pc \in {"release", "exited"}
                     /\ ~task[w].release_thread

----------------------------------------------------------------------------
(* C1: with a non-NULL signaled_cb, a wait that returned 0 gets its callback
   at most once at any time, with the fence and data of that wait, from the
   waiter thread or from exit's sweep but not both; it has had it exactly once
   as soon as its record is released and, in particular, when exit has
   returned.  A wait that did not return 0 never gets a callback. *)
C1_ExactlyOneCallback ==
    awaiter.signaled_cb =>
      \A w \in Waiters :
        /\ Len(cb_calls[w]) <= 1
        /\ \A i \in 1..Len(cb_calls[w]) :
             /\ Accepted(w)
             /\ cb_calls[w][i].fence = call[w].fence
             /\ cb_calls[w][i].data = call[w].data
        /\ (Accepted(w) /\ thread[w].freed) => Len(cb_calls[w]) = 1
        /\ (Accepted(w) /\ exit.pc = "done") => Len(cb_calls[w]) = 1

\* exit has returned after sweeping two listed waiters, one of which had
\* delivered its own callback (fence signaled while exit was running) and one
\* of which was canceled by the sweep
C1_Witness ==
    /\ awaiter.signaled_cb
    /\ exit.pc = "done"
    /\ \E w1, w2 \in Waiters :
         /\ LeftToExit(w1) /\ LeftToExit(w2)
         /\ Len(CallsBy(w1, "thread")) = 1
         /\ Len(CallsBy(w2, "exit")) = 1

(* C2: a callback made by exit's sweep carries -ERESTARTSYS and goes to a
   waiter whose thread did not set `signaled'; once exit has returned, every
   waiter that was left in the list and had not set `signaled' has had exactly
   that callback, and every waiter with `signaled' set has none from the
   sweep. *)
C2_SweepCancelsUnsignaled ==
    \A w \in Waiters :
      /\ \A i \in 1..Len(cb_calls[w]) :
           cb_calls[w][i].by = "exit" =>
             /\ cb_calls[w][i].wait_status = -ERESTARTSYS
             /\ ~thread[w].signaled
             /\ LeftToExit(w)
      /\ thread[w].signaled => CallsBy(w, "exit") = <<>>
      /\ (exit.pc = "done" /\ awaiter.signaled_cb /\ LeftToExit(w)
            /\ ~thread[w].signaled)
           => cb_calls[w] = <<[fence |-> call[w].fence, wait_status |-> -ERESTARTSYS,
                               data |-> call[w].data, by |-> "exit"]>>

\* exit has returned having canceled a waiter whose thread never ran and
\* having skipped a waiter that had set `signaled'
C2_Witness ==
    /\ awaiter.signaled_cb
    /\ exit.pc = "done"
    /\ \E w1, w2 \in Waiters :
         /\ LeftToExit(w1) /\ ~thread[w1].signaled
         /\ Len(CallsBy(w1, "exit")) = 1
         /\ LeftToExit(w2) /\ thread[w2].signaled

(* C3 (as claimed): when exit has returned, the list is empty and no thread
   started by a successful wait is still inside gcip_ikf_thread_func. *)
C3_NoLiveWaiterAfterExit ==
    exit.pc = "done" =>
      /\ awaiter.threads = <<>>
      /\ \A w \in Waiters : Accepted(w) => task[w].pc = "exited"

(* C3 (amended): when exit has returned, the list is empty and every waiter
   that was in the list when exit set the stop flag has terminated; a waiter
   that unlinked itself before the flag was set may still be running the
   tail of gcip_ikf_thread_func after the unlock (lines 105-110), where it
   has made its callback and only releases its own record. *)
C3_NoListedWaiterAfterExit ==
    exit.pc = "done" =>
      /\ awaiter.threads = <<>>
      /\ \A w \in Waiters : Accepted(w) =>
           \/ task[w].pc = "exited"
           \/ /\ task[w].pc = "release"
              /\ task[w].release_thread
              /\ thread[w].signaled

\* exit has returned while a waiter that had unlinked itself is still in the
\* tail of its thread function, and another waiter was stopped by the sweep
C3_Witness ==
    /\ exit.pc = "done"
    /\ \E w1, w2 \in Waiters :
         /\ Accepted(w1) /\ task[w1].pc = "release"
         /\ LeftToExit(w2) /\ task[w2].pc = "exited"

(* C4: once exit has returned the callback is never invoked again, and at
   that point every wait that was accepted has had its one callback. *)
C4_NoCallbackAfterExit ==
    /\ [][exit.pc = "done" => cb_calls' = cb_calls]_vars
    /\ [](exit.pc = "done" /\ awaiter.signaled_cb =>
            \A w \in Waiters : Accepted(w) => Len(cb_calls[w]) = 1)

\* exit has returned, two waits had been accepted, and a later wait was made
C4_Witness ==
    /\ exit.pc = "done"
    /\ awaiter.signaled_cb
    /\ \E w1, w2 \in Waiters : w1 # w2 /\ Accepted(w1) /\ Accepted(w2)
         /\ Len(cb_calls[w1]) = 1 /\ Len(cb_calls[w2]) = 1
         /\ task[w1].pc = "release"

(* C5: under fair scheduling, once exit has set the stop flag it eventually
   returns. *)
C5_ExitTerminates == (exit.pc = "loop") ~> (exit.pc = "done")

Quiescent == \A t \in Threads : ioctl[t].pc \in {"idle", "ret"}

\* position of the first occurrence of what in the log of a call, 0 if none
LogPos(l, what) ==
    IF \E i \in 1..Len(l) : l[i] = what
    THEN CHOOSE i \in 1..Len(l) : l[i] = what /\ \A j \in 1..(i - 1) : l[j] # what
    ELSE 0

\* the number of occurrences of what in the log of a call
LogCount(l, what) == Cardinality({i \in 1..Len(l) : l[i] = what})

\* thread t is in, or has returned from, an acquire that took the count from
\* zero for a client that owns a group
AcquiredFirst(t) ==
    /\ ioctl[t].op = "acquire"
    /\ ioctl[t].pc \in {"acq_unlocked", "ret"}
    /\ "attach" \in {ioctl[t].log[i] : i \in 1..Len(ioctl[t].log)}

\* thread t has returned from a release that brought the count to zero
ReleasedLast(t) ==
    /\ ioctl[t].op = "release"
    /\ ioctl[t].pc = "ret"
    /\ ioctl[t].ret = 0
    /\ ioctl[t].count = 0

\* C7: in an acquire that takes the count from 0 to 1 for a client that owns
\* a group, edgetpu_pm_get() has succeeded, and its reference is still held,
\* when edgetpu_group_attach_and_open_mailbox() is called; in a release that
\* brings the count to 0, edgetpu_group_close_and_detach_mailbox() has
\* returned when edgetpu_pm_put() is called.
C7_PowerAroundMailbox ==
    /\ [](\A t \in Threads :
            LET l == ioctl[t].log IN
            /\ LogPos(l, "attach") > 0 =>
                    /\ LogPos(l, "pm_get") > 0
                    /\ LogPos(l, "pm_get") < LogPos(l, "attach")
                    /\ LogPos(l, "pm_put") \in {0} \cup (LogPos(l, "attach") + 1 .. Len(l))
            /\ (ReleasedLast(t) /\ client.group) => l = <<"detach", "pm_put">>
            /\ LogPos(l, "detach") > 0 /\ LogPos(l, "pm_put") > 0 =>
                    LogPos(l, "detach") < LogPos(l, "pm_put"))
    /\ [][/\ hist'.attach > hist.attach => pm_count > 0
          /\ hist'.detach > hist.detach => pm_count > 0]_vars

\* C7 happens: one thread has returned from the acquire that attached the
\* mailbox, another from the release that detached it
C7_Witness ==
    \E t, u \in Threads :
        /\ AcquiredFirst(t) /\ ioctl[t].pc = "ret" /\ ioctl[t].ret = 0
        /\ ioctl[t].log = <<"pm_get", "attach">>
        /\ ReleasedLast(u) /\ client.group
        /\ ioctl[u].log = <<"detach", "pm_put">>

\* C8 as stated: for a client that owns a group, the mailbox is attached once
\* for each transition of the count from 0 to 1, and is detached once for
\* each transition of the count from 1 to 0.
C8_DetachPerTransitionToZero ==
    client.group => /\ hist.attach = hist.up
                    /\ hist.detach = hist.down

\* C8, amended: the mailbox attach is invoked once by each acquire that finds
\* the count at zero and by no other acquire; the detach is invoked once by
\* each release ioctl that brings the count to zero, by no other release and
\* by no acquire: the transition from 1 to 0 made by an acquire whose attach
\* failed (the rollback of the count) detaches nothing.  A client without a
\* group attaches and detaches nothing.
C8_AttachDetachPerIoctl ==
    /\ client.group => /\ hist.attach = hist.up
                       /\ hist.detach + hist.attach_failed = hist.down
    /\ ~client.group => hist.attach = 0 /\ hist.detach = 0
    /\ \A t \in Threads :
          LET l == ioctl[t].log IN
          /\ LogCount(l, "attach") <= 1 /\ LogCount(l, "detach") <= 1
          /\ ioctl[t].op = "acquire" => LogCount(l, "detach") = 0
          /\ ioctl[t].op = "release" => LogCount(l, "attach") = 0
          /\ (ioctl[t].op = "acquire" /\ ioctl[t].pc \in {"acq_unlocked", "ret"}) =>
                (LogCount(l, "attach") = 1 <=>
                    client.group /\ ioctl[t].count = 0 /\ ioctl[t].ret \in {0, -EIO}
                    /\ LogCount(l, "pm_get") = 1)
          /\ (ioctl[t].op = "release" /\ ioctl[t].pc \in {"rel_unlocked", "ret"}) =>
                (LogCount(l, "detach") = 1 <=>
                    client.group /\ ioctl[t].count = 0 /\ ioctl[t].ret = 0)

\* C8 happens: an attach has failed and the count was rolled back, another
\* acquire has attached the mailbox and a release has detached it
C8_Witness ==
    /\ client.group
    /\ hist.attach_failed >= 1
    /\ hist.attach >= 2
    /\ hist.detach >= 1
    /\ hist.down = hist.detach + hist.attach_failed
    /\ Quiescent

\* C9 as stated: the count is never negative, edgetpu_pm_get() has been called
\* once for each transition of the count from zero, and edgetpu_pm_put() once
\* for each transition of the count to zero.
C9_PowerCallsMatchTransitions ==
    /\ wakelock.req_count >= 0
    /\ Quiescent => /\ hist.pm_get = hist.up
                    /\ hist.pm_put = hist.down

\* C9, amended: the count is never negative; edgetpu_pm_get() is called by
\* every acquire, whatever the count, and edgetpu_pm_put() by every release
\* that succeeds and by every acquire that fails after its pm_get: the power
\* references held are never fewer than the count and, when no ioctl is in
\* progress, are exactly the count, so that power is held if and only if the
\* count is not zero.
C9_PowerReferencePerRequest ==
    /\ wakelock.req_count >= 0
    /\ pm_count = hist.pm_get - hist.pm_put
    /\ pm_count >= wakelock.req_count
    /\ hist.pm_get >= hist.up
    /\ Quiescent => pm_count = wakelock.req_count

\* C9 happens: two requests are held after one transition from zero, and an
\* earlier acquire has failed
C9_Witness ==
    /\ Quiescent
    /\ wakelock.req_count = 2
    /\ pm_count = 2
    /\ hist.up = 2
    /\ hist.down = 1
    /\ hist.pm_get = 3
    /\ hist.pm_put = 1

\* C10: a release that fails, the count being zero (-EINVAL) or the last
\* request being released while mmap'ed buffers are held (-EAGAIN), returns
\* that error and changes neither the count, nor the attachment of the
\* mailbox, nor the power references: it detaches nothing and puts nothing.
C10_FailedReleaseChangesNothing ==
    /\ [](\A t \in Threads :
            (ioctl[t].op = "release" /\ ioctl[t].pc \in {"rel_unlocked", "ret"}
             /\ ioctl[t].count < 0) =>
                /\ ioctl[t].pc = "ret"
                /\ ioctl[t].ret = ioctl[t].count
                /\ ioctl[t].ret \in {-EINVAL, -EAGAIN}
                /\ ioctl[t].log = <<>>)
    /\ [][\A t \in Threads :
            ioctl[t].pc = "rel_locked" /\ ioctl'[t].pc # "rel_locked" /\
            (wakelock.req_count = 0 \/
             (wakelock.req_count = 1 /\ wakelock.event_count > 0)) =>
                /\ ioctl'[t].pc = "ret"
                /\ ioctl'[t].ret = IF wakelock.req_count = 0 THEN -EINVAL ELSE -EAGAIN
                /\ wakelock'.req_count = wakelock.req_count
                /\ wakelock'.event_count = wakelock.event_count
                /\ mailbox_attached' = mailbox_attached
                /\ pm_count' = pm_count
                /\ hist'.detach = hist.detach
                /\ hist'.pm_put = hist.pm_put
                /\ hist'.down = hist.down]_vars

\* C10 happens: one release was refused for a count of zero, another for the
\* mmap'ed buffers of a client whose mailbox is attached
C10_Witness ==
    \E t, u \in Threads :
        /\ ioctl[t].op = "release" /\ ioctl[t].pc = "ret" /\ ioctl[t].ret = -EINVAL
        /\ ioctl[u].op = "release" /\ ioctl[u].pc = "ret" /\ ioctl[u].ret = -EAGAIN
        /\ wakelock.req_count = 1 /\ wakelock.event_count = 1
        /\ mailbox_attached /\ pm_count = 1


(***************************************************************************)
(* The removal of a client.                                                *)
(***************************************************************************)
\* C11: once the removal path has dropped its reference on the client
\* (edgetpu_client_put, which frees the client when it was the last one), the
\* client is in no group and holds no power reference any more.
C11_ReleasedBeforePut ==
    LogPos(remove.log, "client_put") > 0 =>
        /\ ~client.group
        /\ pm_count = 0
        /\ LogPos(remove.log, "pm_put") \in 0..(LogPos(remove.log, "client_put") - 1)

\* C12: when edgetpu_client_remove has returned, it has made exactly as many
\* edgetpu_pm_put calls as the wakelock count it found, the edgetpu_pm_put
\* calls made for the client equal the successful edgetpu_pm_get calls, and
\* the client holds no power reference.
C12_RemovePutsEveryReference ==
    /\ remove.pc = "done" =>
          /\ LogCount(remove.log, "pm_put") = wakelock.req_count
          /\ hist.pm_put = hist.pm_get
          /\ pm_count = 0
    /\ remove.pc # "idle" =>
          LogCount(remove.log, "pm_put") + remove.wakelock_count = wakelock.req_count

\* C12 happens: the client is removed holding two requests, after an acquire
\* failed on its attach and a release was refused
C12_Witness ==
    /\ remove.pc = "done"
    /\ wakelock.req_count = 2
    /\ LogCount(remove.log, "pm_put") = 2
    /\ hist.attach_failed = 1
    /\ hist.pm_get = 3
    /\ \E t \in Threads : ioctl[t].op = "release" /\ ioctl[t].ret = -EINVAL


(***************************************************************************)
(* The tracker of mappings.                                                *)
(***************************************************************************)
\* the mappings in the tracker
Live == {mappings.rb[i] : i \in 1..Len(mappings.rb)}

\* the device addresses of mapping m
Range(m) == {a \in TpuAddrs : /\ map[m].device_address <= a
                              /\ a < map[m].device_address + map[m].size}

\* C13: the ranges of the mappings in the tracker are pairwise disjoint; an
\* add whose range overlaps a mapping in the tracker is rejected with -EBUSY.
C13_LiveRangesDisjoint ==
    \A m, n \in Live : m # n => Range(m) \cap Range(n) = {}

\* C14: edgetpu_mapping_add of a mapping without release callback returns
\* -EINVAL, of a mapping whose device address is that of a mapping in the
\* tracker returns -EBUSY, both leaving the tree and the count as they were;
\* any other add returns 0, links the mapping, which is then found by its
\* device address, and raises the count by one.
C14_AddResult ==
    /\ [](/\ mappings.count = Len(mappings.rb)
          /\ \A i, j \in 1..Len(mappings.rb) :
                i < j => map[mappings.rb[i]].device_address
                            < map[mappings.rb[j]].device_address)
    /\ [][\A m \in Maps :
            (map[m].state = "new" /\ map'[m].state # "new") =>
              /\ mapop'.op = "add" /\ mapop'.map = m
              /\ \A n \in Maps \ {m} : map'[n] = map[n]
              /\ IF ~map'[m].release
                 THEN /\ mapop'.ret = -EINVAL
                      /\ mappings' = mappings
                 ELSE IF \E n \in Live : map[n].device_address = mapop'.iova
                 THEN /\ mapop'.ret = -EBUSY
                      /\ mappings' = mappings
                 ELSE /\ mapop'.ret = 0
                      /\ mappings'.count = mappings.count + 1
                      /\ {mappings'.rb[i] : i \in 1..Len(mappings'.rb)} = Live \cup {m}
                      /\ map'[m].device_address = mapop'.iova
                      /\ edgetpu_mapping_find_locked(map', mappings'.rb, mapop'.iova) = {m}]_vars

\* C14 happens: with one mapping in the tracker, an add without release
\* callback was refused, and then an add at the address of the first
C14_Witness ==
    /\ mapop.op = "add" /\ mapop.ret = -EBUSY
    /\ mappings.count = 1
    /\ \E m, n \in Maps : /\ map[m].state = "rejected" /\ ~map[m].release
                          /\ map[n].state = "rejected" /\ map[n].release
                          /\ mapop.map = n
                          /\ map[Head(mappings.rb)].device_address = mapop.iova

C16_ClearReleasesOnce ==
    /\ [](\A m \in Maps :
            /\ map[m].released <= 1
            /\ map[m].state = "linked" <=> m \in Live
            /\ map[m].state = "released" <=> map[m].released = 1)
    /\ [][mappings.lock /\ ~mappings'.lock =>
            /\ mappings'.rb = <<>>
            /\ mappings'.count = 0
            /\ \A a \in TpuAddrs :
                 edgetpu_mapping_find_locked(map', mappings'.rb, a) = {NULL}
            /\ \A m \in Maps : map'[m].state # "linked"]_vars
    /\ [][\A m \in Maps : (map[m].state = "linked" /\ map'[m].state # "linked") =>
            map'[m].state = "released" /\ map'[m].released = 1]_vars
    /\ (mappings.lock ~> ~mappings.lock)

\* C16 happens: a sweep has returned after releasing two mappings, a third
\* one having been released by an explicit unmap before
C16_Witness ==
    /\ mapop.op = "clear" /\ mapop.ret = 2
    /\ ~mappings.lock
    /\ mappings.rb = <<>>
    /\ \A m \in Maps : map[m].state = "released" /\ map[m].released = 1

(***************************************************************************)
(* The group ioctls.                                                       *)
(***************************************************************************)
\* the references on the group that the running ioctls hold
RECURSIVE HeldByIoctls(_)
HeldByIoctls(t) ==
    IF t = 0 THEN 0 ELSE gioctl[t].gets - gioctl[t].puts + HeldByIoctls(t - 1)

\* the map ioctl of thread t is between its lock_check_group_member and its
\* label out
InMapBuffer(t) ==
    gioctl[t].op = "map_buffer" /\ gioctl[t].pc \in {"locked", "map", "copy_to_user", "out"}

(* C17: in edgetpu_ioctl_map_buffer the group lock is not held while
   edgetpu_device_group_map runs and until the ioctl returns; the ioctl holds
   one reference on the group from the locked section to its label out, so
   the group is not freed meanwhile even when the client leaves it; and on
   every return path that took the reference it was dropped exactly once. *)
C17_GroupHeldUnlocked ==
    /\ \A t \in Threads :
          InMapBuffer(t) =>
              /\ gioctl[t].gets = 1 /\ gioctl[t].puts = 0
              /\ ~group.freed
              /\ (gioctl[t].pc # "locked" => client.group_lock # t)
    /\ gret.op = "map_buffer" =>
          /\ gret.puts = gret.gets
          /\ gret.gets <= 1
          /\ (gret.nogroup => gret.gets = 0)
          /\ (gret.ret \in {0, -ENOMEM} => gret.gets = 1)
    /\ client.group_lock # 0 => gioctl[client.group_lock].pc = "locked"
    /\ ~group.freed =>
          group.ref_count = (IF client.group THEN 1 ELSE 0) + HeldByIoctls(NumThreads)

\* the client left the group while a map ioctl was pinning pages, and the
\* reference of the ioctl is the only one left
C17_Witness ==
    \E t \in Threads :
        /\ gioctl[t].op = "map_buffer" /\ gioctl[t].pc = "copy_to_user"
        /\ ~client.group
        /\ group.ref_count = 1 /\ ~group.freed

\* the ioctls that act on the group of the client
GroupOps == {"finalize_group", "map_buffer", "unmap_buffer", "sync_buffer",
             "map_dmabuf", "unmap_dmabuf", "set_eventfd", "unset_eventfd",
             "sync_fence_create", "vii_command", "vii_response"}

(* C18: a group ioctl (finalize, map, unmap, sync, dma-buf map and unmap,
   event registration, sync-fence creation, VII command and response) called
   by a client that is in no group returns in the step that calls it, with
   an error, and changes nothing of the client, the group, the device or the
   VII commands. *)
C18_NoGroupIsCallerError ==
    [][(~client.group /\ gcalls' = gcalls + 1) =>
          /\ gioctl' = gioctl
          /\ gret'.op \in GroupOps =>
                /\ gret'.ret < 0
                /\ UNCHANGED <<client, group, etdev, command, ikv>>]_vars

(***************************************************************************)
(* The VII commands.                                                       *)
(***************************************************************************)
\* the responses to command c that wait in the response queue
QueuedFor(c) == {i \in DOMAIN ikv.resp_queue : ikv.resp_queue[i].cmd = c}

\* a response with the sequence number of command c can be fetched
Retrievable(c) ==
    \E i \in QueuedFor(c) : ikv.resp_queue[i].seq = command[c].seq

(* C19: every VII command whose submission was accepted gets exactly one
   response: a submission that returns 0 leaves one more command
   outstanding, and only such a submission does; at no time has a command
   had two responses or a response with another sequence number; and under
   fair scheduling a response with the sequence number of an outstanding
   command eventually waits in the response queue, also when the group
   becomes errored while the command is outstanding. *)
C19_ExactlyOneResponse ==
    /\ [][\A c \in Cmds :
             (command[c].state = "none" /\ command'[c].state # "none")
             <=> (/\ gcalls' = gcalls + 1
                  /\ gret'.op = "vii_command" /\ gret'.ret = 0
                  /\ c = NextCommand)]_vars
    /\ [](\A c \in Cmds :
            /\ command[c].responses <= 1
            /\ Cardinality(QueuedFor(c)) <= command[c].responses
            /\ (command[c].state # "done" => command[c].responses = 0)
            /\ \A i \in QueuedFor(c) : ikv.resp_queue[i].seq = command[c].seq)
    /\ \A c \in Cmds : Outstanding(c) ~> Retrievable(c)

\* the group became errored with a command outstanding, whose response, made
\* by the kernel, now waits in the queue
C19_Witness ==
    \E c \in Cmds :
        /\ Retrievable(c)
        /\ group.status = "errored"
        /\ \E i \in QueuedFor(c) :
              ikv.resp_queue[i].code = VII_RESPONSE_CODE_KERNEL_CANCELED

\* a response to command c made by the kernel for a cancellation caused by
\* the fatal errors `bits' waits in the queue q
CanceledWith(q, c, seq, bits) ==
    \E i \in DOMAIN q :
        /\ q[i].cmd = c /\ q[i].seq = seq
        /\ q[i].code = VII_RESPONSE_CODE_KERNEL_CANCELED
        /\ q[i].retval = bits

(* C20: when a finalized group becomes errored with the fatal-error bits B,
   which are EDGETPU_ERROR_FW_CRASH for a firmware crash, each command that
   was outstanding gets one response with VII_RESPONSE_CODE_KERNEL_CANCELED
   and retval B; and on an errored group, which stays errored, no command is
   accepted any more. *)
C20_ErroredCancelsOutstanding ==
    [][/\ (group.status = "finalized" /\ group'.status = "errored") =>
            /\ group'.fatal_errors # 0
            /\ (etdev'.firmware_crash_count # etdev.firmware_crash_count =>
                    group'.fatal_errors = EDGETPU_ERROR_FW_CRASH)
            /\ \A c \in Cmds :
                  Outstanding(c) =>
                    /\ CanceledWith(ikv'.resp_queue, c, command[c].seq,
                                    group'.fatal_errors)
                    /\ command'[c].responses = 1
                    /\ command'[c].state = "done"
       /\ group.status = "errored" =>
            /\ group'.status = "errored"
            /\ command' = command
            /\ (gcalls' = gcalls + 1 /\ gret'.op = "vii_command") => gret'.ret < 0]_vars

\* a firmware crash found two commands outstanding, whose canceled responses
\* wait in the queue, and a command submitted afterwards was refused
C20_Witness ==
    /\ group.status = "errored"
    /\ group.fatal_errors = EDGETPU_ERROR_FW_CRASH
    /\ \E c, d \in Cmds :
          /\ c # d
          /\ CanceledWith(ikv.resp_queue, c, command[c].seq, EDGETPU_ERROR_FW_CRASH)
          /\ CanceledWith(ikv.resp_queue, d, command[d].seq, EDGETPU_ERROR_FW_CRASH)
    /\ gret.op = "vii_command" /\ gret.ret = -EINVAL


(***************************************************************************)
(* C21.  The status of a group changes only from waiting to finalized,     *)
(* from finalized to errored, and from waiting, finalized or errored to    *)
(* disbanded; a disbanded group keeps its status, and a finalize that       *)
(* returns an error leaves the status of the group as it was.              *)
(***************************************************************************)
StatusSteps ==
    {<<"none", "waiting">>, <<"waiting", "finalized">>, <<"finalized", "errored">>,
     <<"waiting", "disbanded">>, <<"finalized", "disbanded">>,
     <<"errored", "disbanded">>}

C21_StatusProgression ==
    [][/\ group'.status # group.status
          => <<group.status, group'.status>> \in StatusSteps
       /\ (/\ gcalls' = gcalls + 1
           /\ gret'.op = "finalize_group"
           /\ gret'.ret # 0) => group'.status = group.status]_vars

\* a group that went through every status, the last ioctl being the finalize
C21_Witness ==
    /\ group.status = "disbanded"
    /\ group.fatal_errors # 0
    /\ gret.op = "finalize_group"

(***************************************************************************)
(* C22.  A disbanded group has no mapping in its tracker of buffers nor in *)
(* its tracker of dma-bufs, and a map request that reaches it fails: the   *)
(* map of a buffer whose ioctl took its reference before the client left   *)
(* returns -EINVAL and adds nothing, and a map ioctl called afterwards     *)
(* returns an error at once, -EINVAL when its argument could be read.      *)
(***************************************************************************)
C22_DisbandedHasNoMapping ==
    /\ [](group.status = "disbanded" => group.mappings = 0 /\ group.dmabufs = 0)
    /\ [][group.status = "disbanded" =>
             /\ \A t \in Threads :
                  (gioctl[t].pc = "map" /\ gioctl'[t].pc # "map")
                  => /\ gioctl'[t].pc = "out"
                     /\ gioctl'[t].ret = -EINVAL
                     /\ group' = group
             /\ (gcalls' = gcalls + 1 /\ gret' # gret /\ gret'.op \in {"map_buffer", "map_dmabuf"})
                  => /\ gioctl' = gioctl
                     /\ gret'.ret \in {-EINVAL, -EFAULT}
                     /\ group' = group]_vars

\* a map ioctl that took its reference, found the group disbanded when it
\* came to map, and returned -EINVAL
C22_Witness ==
    /\ group.status = "disbanded"
    /\ gret.op = "map_buffer" /\ gret.gets = 1 /\ gret.ret = -EINVAL

(***************************************************************************)
(* C23.  The credits of a client and its commands without a response add   *)
(* up to EDGETPU_NUM_VII_CREDITS, so the client never has more than that   *)
(* many outstanding commands and its credits stay between 0 and that       *)
(* number.  A submit without a credit left fails, with -EBUSY when nothing *)
(* else is wrong with it, and changes nothing; an accepted submit takes    *)
(* one credit; every command whose response arrives or is made by the      *)
(* kernel gives one credit back, once.                                     *)
(***************************************************************************)
NumOutstanding == Cardinality({c \in Cmds : Outstanding(c)}) + ikv.backlog

C23_CreditsBoundOutstanding ==
    /\ [](/\ ikv.credits \in 0..EDGETPU_NUM_VII_CREDITS
          /\ NumOutstanding <= EDGETPU_NUM_VII_CREDITS
          /\ ikv.credits + NumOutstanding = EDGETPU_NUM_VII_CREDITS)
    /\ [][/\ (gcalls' = gcalls + 1 /\ gret'.op = "vii_command")
              => /\ ikv.credits = 0
                    => /\ gret'.ret \in {-EBUSY, -EFAULT, -EINVAL}
                       /\ UNCHANGED <<group, command, ikv>>
                 /\ gret'.ret = 0
                    => /\ ikv'.credits = ikv.credits - 1
                       /\ NumOutstanding' = NumOutstanding + 1
                 /\ gret'.ret # 0 => UNCHANGED <<command, ikv>>
          /\ ~(gcalls' = gcalls + 1 /\ gret'.op = "vii_command")
              => /\ NumOutstanding' <= NumOutstanding
                 /\ ikv'.credits - ikv.credits = NumOutstanding - NumOutstanding'
                 /\ \A c \in Cmds :
                      (Outstanding(c) /\ ~Outstanding(c)')
                      => command'[c].responses = command[c].responses + 1]_vars

\* a submit was refused with -EBUSY while the client had no credit left
C23_Witness ==
    /\ ikv.credits = 0
    /\ gret.op = "vii_command" /\ gret.ret = -EBUSY
    /\ \E c \in Cmds : Outstanding(c)

(***************************************************************************)
(* C24.  The five response codes the kernel makes are distinct and fit the *)
(* 16 bits of the code field, and the test `code > VII_RESPONSE_CODE_      *)
(* KERNEL_BASE' tells the responses reported by the driver from those of   *)
(* the firmware: a queued response passes it exactly when the driver made  *)
(* it.                                                                     *)
(***************************************************************************)
KernelCodes ==
    {VII_RESPONSE_CODE_KERNEL_CMD_TIMEOUT, VII_RESPONSE_CODE_KERNEL_ENQUEUE_FAILED,
     VII_RESPONSE_CODE_KERNEL_FENCE_ERROR, VII_RESPONSE_CODE_KERNEL_FENCE_TIMEOUT,
     VII_RESPONSE_CODE_KERNEL_CANCELED}

C24_KernelCodesAboveBase ==
    /\ Cardinality(KernelCodes) = 5
    /\ \A code \in KernelCodes : code \in 0..(2^16 - 1)
    /\ \A i \in DOMAIN ikv.resp_queue :
          ikv.resp_queue[i].code \in KernelCodes
          <=> ikv.resp_queue[i].code > VII_RESPONSE_CODE_KERNEL_BASE

(***************************************************************************)
(* C25.  When the litebuf command ioctl has allocated the descriptor of a  *)
(* staging buffer and returns an error, it has freed what it allocated,    *)
(* the descriptor and the memory of the buffer, once each; when it returns *)
(* 0 it has freed neither and the release callback owns them.              *)
(***************************************************************************)
C25_StagingFreedOnError ==
    (gret.op = "vii_litebuf_command" /\ litebuf.large)
    => /\ gret.ret # 0 => /\ litebuf.kfree = litebuf.kzalloc
                          /\ litebuf.iremap_free = litebuf.iremap_alloc
                          /\ ~litebuf.callback
       /\ gret.ret = 0 => /\ litebuf.kzalloc = 1 /\ litebuf.iremap_alloc = 1
                          /\ litebuf.kfree = 0 /\ litebuf.iremap_free = 0
                          /\ litebuf.callback

(***************************************************************************)
(* C26.  While the client holds no wakelock, the timestamp ioctl and the   *)
(* mmap of the full CSRs, of the mailbox CSRs, of the command queue and of *)
(* the response queue are refused: the register is not read, no mapping is *)
(* made and the wakelock is left as it is.                                 *)
(***************************************************************************)
\* the step is a timestamp ioctl, or an mmap of one of those regions, made
\* while the count of the wakelock is 0
AccessWithoutWakelock ==
    /\ access'.nth # access.nth
    /\ wakelock.req_count = 0
    /\ access'.op = "tpu_timestamp" \/ access'.region

\* as stated: the error is always -EAGAIN
C26_RefusedWithEAGAIN ==
    [][AccessWithoutWakelock
       => /\ access'.ret = -EAGAIN
          /\ access'.reads = 0 /\ access'.maps = 0
          /\ wakelock' = wakelock]_vars

\* amended: the error is -EAGAIN when the call gets to the wakelock; an mmap
\* can fail before that with -EINVAL or -ENOMEM
C26_RefusedWithoutWakelock ==
    [][AccessWithoutWakelock
       => /\ access'.ret \in {-EAGAIN, -EINVAL, -ENOMEM}
          /\ access'.tested <=> access'.ret = -EAGAIN
          /\ access'.op = "tpu_timestamp" => access'.tested
          /\ access'.reads = 0 /\ access'.maps = 0
          /\ wakelock' = wakelock /\ client' = client]_vars

\* the timestamp ioctl was refused after the client released its wakelock
C26_Witness ==
    /\ access.op = "tpu_timestamp" /\ access.ret = -EAGAIN
    /\ wakelock.req_count = 0
    /\ hist.down > 0

(***************************************************************************)
(* C27.  The wait_status a waiter thread hands to signaled_cb is the       *)
(* remaining timeout, above 0, or -ETIMEDOUT on a wait with a finite       *)
(* timeout, and 0 on a wait without timeout; a wait_status of 0 or more    *)
(* means the fence is signaled; MAX_SCHEDULE_TIMEOUT is never handed over. *)
(***************************************************************************)
\* the step is waiter thread w calling signaled_cb
ThreadCalls(w) ==
    /\ Len(cb_calls'[w]) = Len(cb_calls[w]) + 1
    /\ cb_calls'[w][Len(cb_calls'[w])].by = "thread"

C27_WaitStatusOfThread ==
    [][\A w \in Waiters :
         ThreadCalls(w) =>
           LET s == cb_calls'[w][Len(cb_calls'[w])].wait_status
               t == thread[w].timeout_jiffies
           IN  /\ s # MAX_SCHEDULE_TIMEOUT
               /\ s >= 0 => fence[thread[w].fence].signaled
               /\ t = MAX_SCHEDULE_TIMEOUT => s = 0
               /\ t # MAX_SCHEDULE_TIMEOUT => s \in (1..t) \cup {-ETIMEDOUT}
               /\ s = -ETIMEDOUT => task[w].wait_status = 0]_vars

\* one thread has handed over 0 for a wait without timeout and one has
\* handed over -ETIMEDOUT
C27_Witness ==
    /\ \E w \in Waiters : \E i \in 1..Len(cb_calls[w]) :
         /\ cb_calls[w][i].by = "thread" /\ cb_calls[w][i].wait_status = 0
         /\ thread[w].timeout_jiffies = MAX_SCHEDULE_TIMEOUT
    /\ \E w \in Waiters : \E i \in 1..Len(cb_calls[w]) :
         /\ cb_calls[w][i].by = "thread"
         /\ cb_calls[w][i].wait_status = -ETIMEDOUT

(***************************************************************************)
(* C28.  Under concurrent acquire and release wakelock ioctls and the      *)
(* removal of the client, the device holds a power reference taken for the *)
(* client whenever the mailbox of its group is attached and in every step  *)
(* that attaches or detaches it; the group's mailbox is removed with the   *)
(* device possibly unpowered only after the group was marked               *)
(* dev_inaccessible, and then no mailbox CSR is programmed.                *)
(***************************************************************************)
\* the step is edgetpu_client_remove() leaving the group of the client
RemoveLeavesGroup ==
    remove.pc = "leave" /\ remove'.pc = "put" /\ client.group

C28_MailboxOnlyWhilePowered ==
    /\ [](mailbox_attached => pm_count > 0 /\ wakelock.req_count > 0)
    /\ [](remove.csr = "programmed" => remove.log[1] = "leave")
    /\ [][/\ hist'.attach > hist.attach => pm_count > 0 /\ pm_count' > 0
          /\ hist'.detach > hist.detach => pm_count > 0 /\ pm_count' > 0
          /\ RemoveLeavesGroup =>
               IF remove'.csr = "programmed"
               THEN pm_count > 0 /\ pm_count' > 0
               ELSE client.dev_inaccessible /\ remove'.csr = "skipped"]_vars

\* the client released its last wakelock request, which detached the mailbox
\* and let the device power down, and was removed then: the mailbox of its
\* group was removed without a CSR access
C28_Witness ==
    /\ remove.csr = "skipped"
    /\ client.dev_inaccessible
    /\ hist.detach > 0
    /\ pm_count = 0

(***************************************************************************)
(* C29.  edgetpu_mapping_clear does not hold the lock of the tracker while *)
(* the release callback of a mapping runs, so that a callback that takes   *)
(* the lock itself cannot block against clear.                             *)
(***************************************************************************)
C29_ReleaseRunsUnlocked ==
    \A t \in Threads : trk[t].pc = "clear_release" => ~mappings.lock

(***************************************************************************)
(* C30.  add, unlink and clear change the tree and the count of a tracker  *)
(* only between taking and giving back the mutex of that tracker: at most  *)
(* one thread is between the two at any time, no other thread's mutation   *)
(* falls into a traversal, the count is the number of mappings in the tree *)
(* whenever the mutex is free, and total_size returns the sum over the     *)
(* tree as it is when it returns.                                          *)
(***************************************************************************)
\* thread t is between its mutex_lock and its mutex_unlock
Inside(t) == trk[t].pc \in TrkLocked

\* the sum of the sizes of the mappings in the tree
RECURSIVE SumSizes(_, _)
SumSizes(ms, rb) ==
    IF rb = <<>> THEN 0 ELSE ms[Head(rb)].size + SumSizes(ms, Tail(rb))

C30_MutationsUnderLock ==
    /\ [](Cardinality({t \in Threads : Inside(t)}) <= 1)
    /\ [](mappings.lock <=> \E t \in Threads : Inside(t))
    /\ [](~mappings.lock => mappings.count = Len(mappings.rb))
    /\ [][(mappings'.rb # mappings.rb \/ mappings'.count # mappings.count) =>
            \E t \in Threads :
               /\ Inside(t) /\ mappings.lock
               /\ trk'[t] # trk[t]
               /\ \A u \in Threads \ {t} : ~Inside(u) /\ trk'[u] = trk[u]]_vars
    /\ [][\A t \in Threads :
            (trk[t].pc = "total_locked" /\ trk'[t].pc = "idle") =>
                trk[t].total = SumSizes(map, mappings.rb)]_vars

\* one thread is in the traversal of total_size, past a mapping that another
\* thread added, while a third mapping was unlinked by a thread that has
\* given the mutex back and is about to release it
C30_Witness ==
    \E t, u \in Threads :
        /\ t # u
        /\ trk[t].pc = "total_locked" /\ trk[t].cur > 1 /\ trk[t].total > 0
        /\ trk[u].pc = "unmap_release"

(***************************************************************************)
(* C31.  The wakelock count of a client changes only in a step of an       *)
(* acquire or release ioctl that holds the lock of the wakelock (and the   *)
(* group_lock of the client); it does not change between the reads of one  *)
(* clients_show call nor after edgetpu_client_remove has read it.          *)
(***************************************************************************)
\* the step changes the wakelock count
CountChanges == wakelock'.req_count # wakelock.req_count

C31_CountReadWithoutRace ==
    /\ [][CountChanges =>
            /\ \E t \in Threads :
                 /\ wakelock.lock = t /\ client.group_lock = t
                 /\ ioctl[t].pc \in {"acq_locked", "rel_locked"}
            /\ clients.pc \notin {"test", "print", "group_unlock"}
            /\ remove.pc = "idle"]_vars
    /\ [](clients.pc = "group_unlock" =>
            clients.count = wakelock.req_count /\ clients.printed = clients.count)
    /\ [](remove.pc \in {"list_del", "leave", "put"} =>
            remove.wakelock_count = wakelock.req_count)

\* the listing has read a count of 1 twice while an acquire ioctl that will
\* raise it waits for the group_lock
C31_Witness ==
    /\ clients.pc = "group_unlock" /\ clients.printed = 1
    /\ \E t \in Threads : ioctl[t].op = "acquire" /\ ioctl[t].pc = "acq_lock"

(***************************************************************************)
(* C32.  The client is freed only by the edgetpu_client_put that takes its *)
(* count to zero.  The count is one for the open file, until               *)
(* edgetpu_client_remove puts it, plus one for each live struct            *)
(* edgetpu_vma_private, which the VMA made by edgetpu_mmap and its copies  *)
(* share and which is put when the last of them is closed: a client that   *)
(* is removed while VMAs are mapped stays allocated until the last of them *)
(* is closed, and the count never goes below zero.                         *)
(***************************************************************************)
\* the struct edgetpu_vma_private that are allocated
LivePvts == {p \in Pvts : vma.pvt[p].state = "live"}

\* edgetpu_client_remove has put the reference of the open file
RemovePut == LogPos(remove.log, "client_put") > 0

C32_FreedAtLastReference ==
    /\ [](client.count >= 0 /\ (client.freed <=> client.count = 0))
    /\ [](client.count = Cardinality(LivePvts) + (IF RemovePut THEN 0 ELSE 1))
    /\ [](\A p \in LivePvts : vma.pvt[p].count >= 1 /\ ~client.freed)
    /\ [][(client'.freed /\ ~client.freed) =>
             /\ client.count = 1
             /\ LivePvts' = {}
             /\ RemovePut']_vars

\* the client was removed while a VMA and a copy of it were mapped: it is
\* still allocated, on the reference of their edgetpu_vma_private
C32_Witness ==
    /\ remove.pc = "done"
    /\ \E p \in LivePvts : vma.pvt[p].count = 2
    /\ client.count = 1 /\ ~client.freed

(***************************************************************************)
(* C39.  For each event of the wakelock (full CSR, mailbox CSR, command    *)
(* queue, response queue) the event counter of the client equals the       *)
(* number of live VMAs of the regions of that event, after any sequence of *)
(* mmap, vma open and vma close calls; a failed mmap leaves the counters   *)
(* as they were.                                                           *)
(***************************************************************************)
\* the live VMAs counted by event e: the VMA of each mmap and its copies
LiveVmas(e) ==
    {<<p, i>> \in Pvts \X (1..MaxVmas) :
        /\ vma.pvt[p].state = "live"
        /\ vma_type_to_wakelock_event(vma.pvt[p].type) = e
        /\ i <= vma.pvt[p].count}

C39_EventsCountLiveVmas ==
    /\ [](\A e \in WakelockEvents : vma.event_count[e] = Cardinality(LiveVmas(e)))
    /\ [](wakelock.event_count =
             Cardinality(UNION {LiveVmas(e) : e \in WakelockEvents}))
    /\ [][(hist'.calls # hist.calls /\ vma'.pvt = vma.pvt) =>
             vma'.event_count = vma.event_count]_vars

\* the mailbox CSRs are mapped by a VMA and a copy of it, after a VMA of
\* another mmap was closed
C39_Witness ==
    /\ \E p \in Pvts : /\ vma.pvt[p].state = "live"
                       /\ vma.pvt[p].type = "VMA_VII_CSR"
                       /\ vma.pvt[p].count = 2
    /\ vma.event_count["MBOX_CSR"] = 2
    /\ \E p \in Pvts : vma.pvt[p].state = "freed"

(***************************************************************************)
(* C33.  An acquire wakelock ioctl that fails leaves the wakelock count    *)
(* and the power references of the device as they were: refused for the    *)
(* thermal suspension (-EAGAIN) or by edgetpu_pm_get it changes nothing;   *)
(* when the count cannot be taken or the attach of the mailbox fails, the  *)
(* count is as before when the locks are given back and one edgetpu_pm_put *)
(* undoes the edgetpu_pm_get.                                              *)
(***************************************************************************)
\* thread t is in, or has returned from, an acquire ioctl that failed
AcquireFailed(t) == ioctl[t].op = "acquire" /\ ioctl[t].ret # 0

C33_FailedAcquireChangesNothing ==
    /\ [](\A t \in Threads :
            (AcquireFailed(t) /\ ioctl[t].pc = "ret") =>
                /\ ioctl[t].log \in {<<>>, <<"pm_get", "pm_put">>,
                                     <<"pm_get", "attach", "pm_put">>}
                /\ ioctl[t].ret = -EAGAIN => ioctl[t].log = <<>>
                /\ ioctl[t].ret = -EOVERFLOW => ioctl[t].log = <<"pm_get", "pm_put">>)
    /\ [][\A t \in Threads :
            /\ (ioctl'[t] # ioctl[t] /\ AcquireFailed(t)' /\ ioctl'[t].log = <<>>) =>
                  /\ wakelock' = wakelock /\ pm_count' = pm_count
                  /\ hist'.pm_get = hist.pm_get /\ hist'.pm_put = hist.pm_put
                  /\ mailbox_attached' = mailbox_attached
            /\ (ioctl[t].pc = "acq_locked" /\ ioctl'[t].pc = "acq_unlocked"
                   /\ AcquireFailed(t)') =>
                  /\ wakelock'.req_count = wakelock.req_count
                  /\ mailbox_attached' = mailbox_attached
                  /\ pm_count' = pm_count
            /\ (ioctl[t].pc = "acq_unlocked" /\ ioctl'[t].pc = "ret"
                   /\ AcquireFailed(t)) =>
                  /\ pm_count' = pm_count - 1
                  /\ wakelock' = wakelock]_vars

\* an acquire has returned the error of the attach of the mailbox: the count
\* and the power references are zero as before it
C33_Witness ==
    \E t \in Threads :
       /\ AcquireFailed(t) /\ ioctl[t].pc = "ret"
       /\ ioctl[t].log = <<"pm_get", "attach", "pm_put">>
       /\ wakelock.req_count = 0 /\ pm_count = 0 /\ hist.attach_failed = 1

(***************************************************************************)
(* C34.  With acquire and release wakelock ioctls running concurrently,    *)
(* the power references held for the client (the edgetpu_pm_get that       *)
(* succeeded less the edgetpu_pm_put) are never fewer than the client's    *)
(* wakelock count: they exceed it by one for every acquire that has its    *)
(* reference and not yet the count (or has failed and not yet put), and    *)
(* for every release that has given the count back and not yet put; they   *)
(* are the count when no acquire or release is in progress.                *)
(***************************************************************************)
\* thread t holds a power reference that the count does not include
AheadOfCount(t) ==
    \/ ioctl[t].op = "acquire"
         /\ ioctl[t].pc \in {"acq_lock", "acq_wakelock_lock", "acq_locked"}
    \/ ioctl[t].op = "acquire" /\ ioctl[t].pc = "acq_unlocked" /\ ioctl[t].ret # 0
    \/ ioctl[t].op = "release" /\ ioctl[t].pc = "rel_unlocked"

C34_PowerReferencesCoverCount ==
    /\ hist.pm_get - hist.pm_put =
          wakelock.req_count + Cardinality({t \in Threads : AheadOfCount(t)})
    /\ hist.pm_get - hist.pm_put >= wakelock.req_count
    /\ (\A t \in Threads : ioctl[t].pc \in {"idle", "ret"}) =>
          hist.pm_get - hist.pm_put = wakelock.req_count

\* an acquire has its power reference and waits for the locks that a release,
\* which has given the count back and not yet its reference, has left: two
\* references are held for a count of zero
C34_Witness ==
    \E t, u \in Threads :
       /\ ioctl[t].op = "acquire" /\ ioctl[t].pc = "acq_lock"
       /\ ioctl[u].op = "release" /\ ioctl[u].pc = "rel_unlocked"
       /\ wakelock.req_count = 0
       /\ hist.pm_get - hist.pm_put = 2

(***************************************************************************)
(* C35.  The locks are taken in one order on every path: the holder of the *)
(* wakelock's lock waits for no lock, the holder of a client's group_lock  *)
(* waits for the wakelock's lock at most and never for clients_lock, and a *)
(* call that has returned holds no lock.  Hence, whenever a finalize,      *)
(* acquire, release, timestamp, mmap, clients listing or removal is in     *)
(* progress, one of the calls in progress can take its next step: they do  *)
(* not deadlock.                                                           *)
(***************************************************************************)
\* the lock that ioctl thread t is about to take, "none" if it waits for none
ThreadWaitsFor(t) ==
    CASE ioctl[t].pc \in {"acq_lock", "mmap_group_lock"} -> "group_lock"
      [] ioctl[t].pc \in {"acq_wakelock_lock", "rel_wakelock_lock",
                          "fin_wakelock_lock", "mmap_dec_evt"} -> "wakelock"
      [] OTHER -> "none"

\* the lock the listing of the clients, and the removal, are about to take
ShowWaitsFor == IF clients.pc = "group_lock" THEN "group_lock" ELSE "none"
RemoveWaitsFor ==
    CASE remove.pc = "list_del" -> "clients_lock"
      [] remove.pc = "leave" /\ client.group -> "group_lock"
      [] OTHER -> "none"

\* the lock is held, by whomever
Held(lock) ==
    CASE lock = "group_lock" -> client.group_lock # 0
      [] lock = "wakelock" -> wakelock.lock # 0
      [] lock = "clients_lock" -> clients.lock
      [] OTHER -> FALSE

\* the calls in progress, and those of them that wait for a lock that is held
InProgress ==
    {<<"ioctl", t>> : t \in {u \in Threads : ioctl[u].pc \notin {"idle", "ret"}}}
       \cup (IF clients.pc # "idle" THEN {<<"show", 0>>} ELSE {})
       \cup (IF remove.pc \in {"list_del", "leave"} THEN {<<"remove", 0>>} ELSE {})
Blocked ==
    {<<"ioctl", t>> : t \in {u \in Threads : Held(ThreadWaitsFor(u))}}
       \cup (IF Held(ShowWaitsFor) THEN {<<"show", 0>>} ELSE {})
       \cup (IF Held(RemoveWaitsFor) THEN {<<"remove", 0>>} ELSE {})

C35_LockOrder ==
    /\ \A t \in Threads :
         /\ wakelock.lock = t => ThreadWaitsFor(t) = "none"
         /\ client.group_lock = t => ThreadWaitsFor(t) \in {"none", "wakelock"}
         /\ ioctl[t].pc \in {"idle", "ret"} =>
               wakelock.lock # t /\ client.group_lock # t
    /\ client.group_lock = ShowHolder => ShowWaitsFor = "none" /\ clients.lock
    /\ client.group_lock = RemoveHolder => RemoveWaitsFor = "none"
    /\ clients.pc = "idle" => ~clients.lock /\ client.group_lock # ShowHolder
    /\ remove.pc \in {"idle", "done"} => client.group_lock # RemoveHolder
    /\ InProgress # {} => InProgress \ Blocked # {}

\* the listing holds clients_lock and waits for the group_lock of the client,
\* held by a finalize that waits for the wakelock's lock, held by a timestamp
C35_Witness ==
    \E t, u \in Threads :
       /\ clients.lock /\ clients.pc = "group_lock"
       /\ client.group_lock = t /\ ioctl[t].pc = "fin_wakelock_lock"
       /\ wakelock.lock = u /\ ioctl[u].pc = "ts_locked"

(***************************************************************************)
(* The awaiter: the end of the waiter threads.                             *)
(***************************************************************************)
\* exit calls kthread_stop() in this step
ExitStops == exit.pc = "loop" /\ exit'.pc \in {"stopping", "crashed"}

(* C36: gcip_ikf_awaiter_exit never calls kthread_stop on a waiter whose
   thread function has already returned: when exit stops a listed waiter,
   the thread of that waiter is not yet started or still inside
   gcip_ikf_thread_func. *)
C36_StopsNoReturnedThread ==
    [][ExitStops => task[exit'.cur].pc # "exited"]_vars

(* C37: from the moment gcip_ikf_awaiter_exit has set the stop flag, the list
   of the awaiter is changed by exit alone, which unlinks the waiter it has
   just stopped: a waiter thread that reaches out: leaves its record linked,
   and a wait that reaches the test of the flag links nothing. *)
C37_ListIsExitsAfterStop ==
    [][(awaiter.stop_threads /\ awaiter'.threads # awaiter.threads) =>
          /\ exit.pc = "stopping" /\ exit'.pc = "loop"
          /\ awaiter'.threads = list_del(awaiter.threads, exit.cur)
          /\ task' = task /\ call' = call]_vars

\* the flag is set; a listed waiter has passed out: and kept its record
\* linked, and a wait made since was refused and linked nothing
C37_Witness ==
    /\ awaiter.stop_threads /\ exit.pc = "loop"
    /\ \E w, x \in Waiters :
         /\ awaiter.threads = <<w>>
         /\ task[w].pc = "release" /\ ~task[w].release_thread
         /\ call[x].pc = "ret" /\ call[x].ret = -EPERM

(* C38: the record of a waiter made by gcip_ikf_wait_timeout, and the
   reference on the fence taken with it, are released once: by the waiter
   thread when it found the stop flag clear at out:, by
   gcip_ikf_awaiter_exit when the record was still listed, or by the wait
   call that failed to register it.  Every live record holds one reference on
   its fence; a released record is on no list, is not released again, and is
   used no more by its thread or by exit. *)
LiveRecords(f) ==
    {w \in Waiters : task[w].pc # "none" /\ ~thread[w].freed /\ thread[w].fence = f}
Listed(w) == \E i \in 1..Len(awaiter.threads) : awaiter.threads[i] = w

C38_ReleasedOnce ==
    /\ [](\A f \in Fences : fence[f].refs = 1 + Cardinality(LiveRecords(f)))
    /\ [](\A w \in Waiters :
            /\ thread[w].freed => ~Listed(w) /\ (exit.pc = "stopping" => exit.cur # w)
            /\ (task[w].pc = "exited" /\ task[w].release_thread) => thread[w].freed
            /\ (task[w].pc # "none" /\ call[w].pc = "ret" /\ call[w].ret # 0) =>
                  thread[w].freed
            /\ (exit.pc = "done" /\ task[w].pc = "exited") => thread[w].freed)
    /\ [][\A w \in Waiters :
            /\ (thread'[w].freed /\ ~thread[w].freed) =>
                  \/ /\ task[w].pc = "release" /\ task'[w].pc = "exited"
                     /\ task[w].release_thread /\ ~Listed(w)
                  \/ /\ exit.pc = "stopping" /\ exit.cur = w /\ exit'.pc = "loop"
                     /\ awaiter.stop_threads /\ ~task[w].release_thread
                     /\ task[w].pc = "exited"
                  \/ /\ call[w].pc \in {"idle", "created"} /\ call'[w].pc = "ret"
                     /\ call'[w].ret # 0 /\ ~Listed(w) /\ ~Listed(w)'
            /\ thread[w].freed => thread'[w] = thread[w] /\ task'[w] = task[w]
            /\ (thread[w].fence # NULL /\ thread'[w].freed /\ ~thread[w].freed) =>
                  fence'[thread[w].fence].refs = fence[thread[w].fence].refs - 1]_vars

\* of two waits on one fence the record of the first was released by its
\* thread and that of the second by exit; the fence has the caller's
\* reference left
C38_Witness ==
    /\ exit.pc = "done"
    /\ thread[1].freed /\ task[1].release_thread
    /\ thread[2].freed /\ ~task[2].release_thread /\ call[2].ret = 0
    /\ thread[1].fence = thread[2].fence
    /\ fence[thread[1].fence].refs = 1

(***************************************************************************)
(* C40.  A mapping made by a host-buffer or dma-buf map ioctl that then    *)
(* fails to copy the device address back to the caller is taken off the    *)
(* tracker of the group before the ioctl returns -EFAULT: a map ioctl that *)
(* is about to return an error has no mapping of its own in the tracker.   *)
(***************************************************************************)
MapOps == {"map_buffer", "map_dmabuf"}

C40_FailedCopyUndoesMapping ==
    /\ [](\A t \in Threads :
            (gioctl[t].op \in MapOps /\ gioctl[t].pc = "out" /\ gioctl[t].ret # 0) =>
               ~gioctl[t].mapped)
    /\ [](/\ group.mappings >= Cardinality(InFlight("map_buffer"))
          /\ group.dmabufs >= Cardinality(InFlight("map_dmabuf")))
    /\ [][\A t \in Threads :
            (gioctl[t].op \in MapOps /\ gioctl[t].pc = "copy_to_user"
             /\ gioctl'[t].pc = "out" /\ gioctl'[t].ret # 0) =>
               /\ gioctl'[t].ret = -EFAULT
               /\ group'.mappings + group'.dmabufs =
                     group.mappings + group.dmabufs - (IF gioctl[t].mapped THEN 1 ELSE 0)
               /\ group'.mappings <= group.mappings
               /\ group'.dmabufs <= group.dmabufs]_vars

\* a map ioctl is about to return -EFAULT with its mapping undone, while the
\* mapping of an earlier map ioctl, which returned 0, stays
C40_Witness ==
    \E t \in Threads :
       /\ gioctl[t].op = "map_buffer" /\ gioctl[t].pc = "out"
       /\ gioctl[t].ret = -EFAULT /\ ~gioctl[t].mapped
       /\ group.mappings = 1 /\ InFlight("map_buffer") = {}
       /\ group.status # "disbanded"

=============================================================================
